---- MODULE Spec2Model ----
(***************************************************************************)
(* Office layout engine: workstation pattern generators, wall equipment    *)
(* placement and the plan solver, modelled from src/src/geometry.py,       *)
(* desk_chair.py, patterns.py, utils.py and app.py.                        *)
(*                                                                         *)
(* All lengths are millimetres.  Python floats that arise from "/ 2.0" are *)
(* kept exact by working on doubled integers; int() truncates toward 0.    *)
(* A Euclidean distance sqrt(a) compared with a radius r is compared as    *)
(* a against r*r.                                                          *)
(***************************************************************************)
EXTENDS Integers, Sequences, FiniteSets, TLC

\* ------------------------------------------------------------------------
\* constants.py
\* ------------------------------------------------------------------------
CHAIR_SIZE == 700
CHAIR_DESK_GAP == 5
DEFAULT_DESK_DEPTH == 600

\* An optional value is a sequence of length at most one: None, or <<v>> for
\* the value v.  A door side is a string, and None there is "" (the code only
\* reads it through (door_side or "").upper()).
None == <<>>

\* ------------------------------------------------------------------------
\* catalog.py (fallback catalogue, used when catalog.json is absent)
\* ------------------------------------------------------------------------
FURNITURE ==
  [k \in {"ws_1200x700", "ws_1200x600", "ws_1000x600",
          "storage_S", "storage_M", "storage_D", "mfp", "meet2p"} |->
     CASE k = "ws_1200x700" -> [w |-> 1200, d |-> 1300]
       [] k = "ws_1200x600" -> [w |-> 1200, d |-> 1200]
       [] k = "ws_1000x600" -> [w |-> 1000, d |-> 1200]
       [] k = "storage_S"   -> [w |-> 900,  d |-> 350]
       [] k = "storage_M"   -> [w |-> 900,  d |-> 450]
       [] k = "storage_D"   -> [w |-> 900,  d |-> 600]
       [] k = "mfp"         -> [w |-> 600,  d |-> 650]
       [] k = "meet2p"      -> [w |-> 750,  d |-> 750]]

\* ------------------------------------------------------------------------
\* Python arithmetic helpers
\* ------------------------------------------------------------------------
\* int(n / 2.0): truncation toward zero
IntHalf(n) == IF n >= 0 THEN n \div 2 ELSE -((-n) \div 2)

Max(a, b) == IF a >= b THEN a ELSE b
Min(a, b) == IF a <= b THEN a ELSE b

\* The text after "ws_" split at "x" and converted with int(); a desk type
\* that does not have this shape makes the conversion raise.
WsIdDims ==
  [k \in {"ws_1200x700", "ws_1200x600", "ws_1000x600"} |->
     CASE k = "ws_1200x700" -> <<1200, 700>>
       [] k = "ws_1200x600" -> <<1200, 600>>
       [] k = "ws_1000x600" -> <<1000, 600>>]

\* ------------------------------------------------------------------------
\* geometry.py
\* ------------------------------------------------------------------------
Rect(x, y, w, d) == [x |-> x, y |-> y, w |-> w, d |-> d]
x2(r) == r.x + r.w
y2(r) == r.y + r.d

intersects(a, b) ==
  ~( x2(a) <= b.x \/ a.x >= x2(b) \/ y2(a) <= b.y \/ a.y >= y2(b) )

inside_room(r, room_w, room_d) ==
  r.x >= 0 /\ r.y >= 0 /\ x2(r) <= room_w /\ y2(r) <= room_d

intersects_any(r, blocks) ==
  \E i \in 1..Len(blocks) : intersects(r, blocks[i])

can_place(r, room_w, room_d, blocks) ==
  IF ~inside_room(r, room_w, room_d) THEN FALSE
  ELSE IF intersects_any(r, blocks) THEN FALSE
  ELSE TRUE

\* check_desk_chair_collision without the test of the chair against the
\* blocks
check_desk_only(desk_rect, chair_rect, blocks, room_w, room_d) ==
  IF ~inside_room(desk_rect, room_w, room_d) THEN FALSE
  ELSE IF ~inside_room(chair_rect, room_w, room_d) THEN FALSE
  ELSE IF intersects_any(desk_rect, blocks) THEN FALSE
  ELSE TRUE

check_desk_chair_collision(desk_rect, chair_rect, blocks, room_w, room_d) ==
  IF ~inside_room(desk_rect, room_w, room_d) THEN FALSE
  ELSE IF ~inside_room(chair_rect, room_w, room_d) THEN FALSE
  ELSE IF intersects_any(desk_rect, blocks) THEN FALSE
  ELSE IF intersects_any(chair_rect, blocks) THEN FALSE
  ELSE TRUE

\* ------------------------------------------------------------------------
\* desk_chair.py
\* ------------------------------------------------------------------------
_parse_desk_depth(ws_type) ==
  IF ws_type \in DOMAIN WsIdDims THEN WsIdDims[ws_type][2]
  ELSE DEFAULT_DESK_DEPTH

calc_chair_rect(desk_x, desk_y, desk_w, desk_d, chair_direction) ==
  LET chair_size == CHAIR_SIZE
      gap == CHAIR_DESK_GAP
      chair_x == CASE chair_direction = "T" ->
                        IntHalf(2 * desk_x + desk_w - chair_size)
                   [] chair_direction = "B" ->
                        IntHalf(2 * desk_x + desk_w - chair_size)
                   [] chair_direction = "L" -> desk_x - gap - chair_size
                   [] OTHER -> desk_x + desk_w + gap
      chair_y == CASE chair_direction = "T" -> desk_y - gap - chair_size
                   [] chair_direction = "B" -> desk_y + desk_d + gap
                   [] chair_direction = "L" ->
                        IntHalf(2 * desk_y + desk_d - chair_size)
                   [] OTHER -> IntHalf(2 * desk_y + desk_d - chair_size)
  IN Rect(chair_x, chair_y, chair_size, chair_size)

\* (desk_rect, chair_rect, chair_direction) of a desk against a wall
calc_wall_desk_chair_rects(room_size, ws_type, wall_side, position, unit_along_wall, unit_depth, is_horizontal) ==
  LET desk_depth == Min(_parse_desk_depth(ws_type), unit_depth)
      desk_x == IF is_horizontal THEN position
                ELSE IF wall_side = "L" THEN 0 ELSE room_size - desk_depth
      desk_y == IF is_horizontal
                THEN (IF wall_side = "T" THEN 0 ELSE room_size - desk_depth)
                ELSE position
      chair_dir == IF is_horizontal
                   THEN (IF wall_side = "T" THEN "B" ELSE "T")
                   ELSE (IF wall_side = "L" THEN "R" ELSE "L")
      desk_w == IF is_horizontal THEN unit_along_wall ELSE desk_depth
      desk_d == IF is_horizontal THEN desk_depth ELSE unit_along_wall
  IN << Rect(desk_x, desk_y, desk_w, desk_d),
        calc_chair_rect(desk_x, desk_y, desk_w, desk_d, chair_dir),
        chair_dir >>

can_place_desk_chair(room_size, room_w, room_d, ws_type, wall_side, position, unit_along_wall, unit_depth, is_horizontal, pillar_blocks) ==
  LET rs == calc_wall_desk_chair_rects(room_size, ws_type, wall_side,
                position, unit_along_wall, unit_depth, is_horizontal)
  IN check_desk_chair_collision(rs[1], rs[2], pillar_blocks, room_w, room_d)

\* An item of a candidate.  label is <<"WS", k, "D">> for "WSk_D",
\* <<"WS", k, "C">> for "WSk_C" and <<"EQ", k, "">> for "EQk"; keys an item
\* does not carry are "" (chair_back) and 0 (chair_rotate).
Item(type, rect, label, chair_back, chair_rotate) ==
  [type |-> type, rect |-> rect, label |-> label,
   chair_back |-> chair_back, chair_rotate |-> chair_rotate]

\* the chair square with the gap of a chair above its desk taken with the
\* wrong sign
ChairRectGapSign(desk_x, desk_y, desk_w, desk_d, chair_direction) ==
  LET chair_size == CHAIR_SIZE
      gap == CHAIR_DESK_GAP
      chair_x == CASE chair_direction = "T" ->
                        IntHalf(2 * desk_x + desk_w - chair_size)
                   [] chair_direction = "B" ->
                        IntHalf(2 * desk_x + desk_w - chair_size)
                   [] chair_direction = "L" -> desk_x - gap - chair_size
                   [] OTHER -> desk_x + desk_w + gap
      chair_y == CASE chair_direction = "T" -> desk_y + gap - chair_size
                   [] chair_direction = "B" -> desk_y + desk_d + gap
                   [] chair_direction = "L" ->
                        IntHalf(2 * desk_y + desk_d - chair_size)
                   [] OTHER -> IntHalf(2 * desk_y + desk_d - chair_size)
  IN Rect(chair_x, chair_y, chair_size, chair_size)

\* The chair square add_desk_and_chair computes next to the desk
AddedChairRect(desk_x, desk_y, desk_w, desk_d, chair_direction) ==
  LET chair_size == CHAIR_SIZE
      gap == CHAIR_DESK_GAP
      chair_x == CASE chair_direction = "T" ->
                        IntHalf(2 * desk_x + desk_w - chair_size)
                   [] chair_direction = "B" ->
                        IntHalf(2 * desk_x + desk_w - chair_size)
                   [] chair_direction = "L" -> desk_x - gap - chair_size
                   [] OTHER -> desk_x + desk_w + gap
      chair_y == CASE chair_direction = "T" -> desk_y - gap - chair_size
                   [] chair_direction = "B" -> desk_y + desk_d + gap
                   [] chair_direction = "L" ->
                        IntHalf(2 * desk_y + desk_d - chair_size)
                   [] OTHER -> IntHalf(2 * desk_y + desk_d - chair_size)
  IN Rect(chair_x, chair_y, chair_size, chair_size)

\* add_desk_and_chair with the chair appended before its desk
add_desk_and_chair_chair_first(items, seat_idx, desk_x, desk_y, desk_w, desk_d, chair_direction, chair_rotate_deg) ==
  LET desk_rect == Rect(desk_x, desk_y, desk_w, desk_d)
      back_side == IF chair_direction \in {"T", "B", "L"}
                   THEN chair_direction ELSE "R"
      chair_rect == AddedChairRect(desk_x, desk_y, desk_w, desk_d,
                                   chair_direction)
  IN items \o << Item("chair", chair_rect, <<"WS", seat_idx, "C">>,
                      back_side, chair_rotate_deg),
                 Item("desk", desk_rect, <<"WS", seat_idx, "D">>, "", 0) >>

\* items after the two appends of add_desk_and_chair
add_desk_and_chair(items, seat_idx, desk_x, desk_y, desk_w, desk_d, chair_direction, chair_rotate_deg) ==
  LET desk_rect == Rect(desk_x, desk_y, desk_w, desk_d)
      back_side == IF chair_direction \in {"T", "B", "L"}
                   THEN chair_direction ELSE "R"
      chair_rect == AddedChairRect(desk_x, desk_y, desk_w, desk_d,
                                   chair_direction)
  IN items \o << Item("desk", desk_rect, <<"WS", seat_idx, "D">>, "", 0),
                 Item("chair", chair_rect, <<"WS", seat_idx, "C">>,
                      back_side, chair_rotate_deg) >>

\* add_wall_desk_and_chair with the desk of the R or B wall at the corner of
\* its unit
add_wall_desk_and_chair_unit_corner(items, seat_idx, room_size, ws_type, wall_side, position, unit_along_wall, unit_depth, is_horizontal) ==
  LET desk_depth == Min(_parse_desk_depth(ws_type), unit_depth)
      desk_x == IF is_horizontal THEN position
                ELSE IF wall_side = "L" THEN 0 ELSE room_size - unit_depth
      desk_y == IF is_horizontal
                THEN (IF wall_side = "T" THEN 0 ELSE room_size - unit_depth)
                ELSE position
      chair_dir == IF is_horizontal
                   THEN (IF wall_side = "T" THEN "B" ELSE "T")
                   ELSE (IF wall_side = "L" THEN "R" ELSE "L")
      desk_w == IF is_horizontal THEN unit_along_wall ELSE desk_depth
      desk_d == IF is_horizontal THEN desk_depth ELSE unit_along_wall
  IN add_desk_and_chair(items, seat_idx, desk_x, desk_y, desk_w, desk_d,
                        chair_dir, 0)

add_wall_desk_and_chair(items, seat_idx, room_size, ws_type, wall_side, position, unit_along_wall, unit_depth, is_horizontal) ==
  LET desk_depth == Min(_parse_desk_depth(ws_type), unit_depth)
      desk_x == IF is_horizontal THEN position
                ELSE IF wall_side = "L" THEN 0 ELSE room_size - desk_depth
      desk_y == IF is_horizontal
                THEN (IF wall_side = "T" THEN 0 ELSE room_size - desk_depth)
                ELSE position
      chair_dir == IF is_horizontal
                   THEN (IF wall_side = "T" THEN "B" ELSE "T")
                   ELSE (IF wall_side = "L" THEN "R" ELSE "L")
      desk_w == IF is_horizontal THEN unit_along_wall ELSE desk_depth
      desk_d == IF is_horizontal THEN desk_depth ELSE unit_along_wall
  IN add_desk_and_chair(items, seat_idx, desk_x, desk_y, desk_w, desk_d,
                        chair_dir, 0)

add_free_desk_and_chair(items, seat_idx, ws_type, x, y, desk_w, unit_depth, chair_side, desk_depth_override) ==
  LET desk_depth == IF desk_depth_override # None
                    THEN Min(desk_depth_override[1], unit_depth)
                    ELSE Min(_parse_desk_depth(ws_type), unit_depth)
      chair_dir == IF chair_side = "down" THEN "B" ELSE "T"
  IN add_desk_and_chair(items, seat_idx, x, y, desk_w, desk_depth,
                        chair_dir, 0)

add_lr_desk_and_chair(items, seat_idx, x, y, desk_w, desk_d, chair_side, chair_rotate_deg) ==
  add_desk_and_chair(items, seat_idx, x, y, desk_w, desk_d, chair_side,
                     chair_rotate_deg)

\* ------------------------------------------------------------------------
\* patterns.py: helpers
\* ------------------------------------------------------------------------
_ws_size(furniture, ws_type) ==
  << furniture[ws_type].w, furniture[ws_type].d >>

\* dx and dy of _clear_of_point / _rect_point_distance
PointDx(r, pt) == IF pt[1] < r.x THEN r.x - pt[1]
                  ELSE IF pt[1] > x2(r) THEN pt[1] - x2(r) ELSE 0
PointDy(r, pt) == IF pt[2] < r.y THEN r.y - pt[2]
                  ELSE IF pt[2] > y2(r) THEN pt[2] - y2(r) ELSE 0

_clear_of_point(r, pt, radius_mm) ==
  IF pt = None THEN TRUE
  ELSE LET dx == PointDx(r, pt[1])
           dy == PointDy(r, pt[1])
       IN dx * dx + dy * dy >= radius_mm * radius_mm

\* the square of the distance _rect_point_distance returns
_rect_point_distance(r, pt) ==
  LET dx == PointDx(r, pt)
      dy == PointDy(r, pt)
  IN dx * dx + dy * dy

\* rects of the items of one type, in item order
RECURSIVE RectsOfType(_, _)
RectsOfType(items, type) ==
  IF items = <<>> THEN <<>>
  ELSE LET rest == RectsOfType(Tail(items), type)
       IN IF Head(items).type = type THEN <<Head(items).rect>> \o rest
          ELSE rest

\* min(desk_rects, key=...): the first rect at the least distance
NearestRect(desk_rects, pt) ==
  LET i == CHOOSE i \in 1..Len(desk_rects) :
             /\ \A j \in 1..Len(desk_rects) :
                  _rect_point_distance(desk_rects[i], pt)
                    <= _rect_point_distance(desk_rects[j], pt)
             /\ \A j \in 1..(i - 1) :
                  _rect_point_distance(desk_rects[j], pt)
                    > _rect_point_distance(desk_rects[i], pt)
  IN desk_rects[i]

_side_length_facing(r, door_tip) ==
  LET dx == PointDx(r, door_tip)
      dy == PointDy(r, door_tip)
  IN IF dx = 0 /\ dy = 0 THEN Min(r.w, r.d)
     ELSE IF dx >= dy THEN r.d
     ELSE r.w

_door_clearance_ok_for_items(items, door_tip) ==
  IF door_tip = None THEN TRUE
  ELSE LET desk_rects == RectsOfType(items, "desk")
       IN IF desk_rects = <<>> THEN TRUE
          ELSE LET nearest == NearestRect(desk_rects, door_tip[1])
                   nearest_dist == _rect_point_distance(nearest, door_tip[1])
                   side_len == _side_length_facing(nearest, door_tip[1])
                   short_side == Min(nearest.w, nearest.d)
                   required == IF side_len = short_side THEN 200 ELSE 900
               IN nearest_dist >= required * required

\* ------------------------------------------------------------------------
\* patterns.py: the workstation generators.
\*
\* A call is described by a record a of its arguments (a.gen names the
\* generator) and its local variables by a record s.  For every generator
\* there are the values of the locals before its loop (..._Init), the loop
\* condition (..._Cond), one iteration (..._Body) and the code after the
\* loop that builds the returned dict (..._Return).
\* ------------------------------------------------------------------------

\* a list taken by reference instead of copied
list_alias(l) == [obj |-> "arg", val |-> l]

\* list(l): a new list object with the elements of l.  obj tells whether
\* the value is a new object ("new") or the argument object itself ("arg").
list_copy(l) == [obj |-> "new", val |-> l]

\* the dict every generator returns
Candidate(ok, seats_placed, seats_required, items, ws_type, pattern) ==
  [ok |-> ok, seats_placed |-> seats_placed,
   seats_required |-> seats_required, items |-> items,
   ws_type |-> ws_type, pattern |-> pattern,
   equipment_target |-> None, equipment_placed |-> None]

\* The test made for one wall slot: the unit against the placed rects, the
\* door tip, and the desk and chair against the blocks (pillar_blocks).
WallSlotOk(a, s, unit, radius, room_size, wall_side, position, unit_along_wall, unit_depth, is_horizontal) ==
  /\ can_place(unit, a.room_w, a.room_d, s.placed)
  /\ _clear_of_point(unit, a.door_tip, radius)
  /\ can_place_desk_chair(room_size, a.room_w, a.room_d, a.ws_type,
                          wall_side, position, unit_along_wall, unit_depth,
                          is_horizontal, a.blocks)

\* placed.append(unit); add_wall_desk_and_chair(...); seat_idx += 1
TakeWallSlot(a, s, unit, room_size, wall_side, position, unit_along_wall, unit_depth, is_horizontal) ==
  [s EXCEPT !.placed = Append(@, unit),
            !.items = add_wall_desk_and_chair(@, s.seat_idx, room_size,
                         a.ws_type, wall_side, position, unit_along_wall,
                         unit_depth, is_horizontal),
            !.seat_idx = @ + 1]

\* ---- place_workstations_double_wall
DW_Init(a) ==
  [y |-> 0, seat_idx |-> 1, items |-> <<>>,
   placed |-> list_copy(a.blocks).val, placed_obj |-> list_copy(a.blocks).obj]

DW_Cond(a, s) ==
  LET unit_d_y == _ws_size(FURNITURE, a.ws_type)[1]
  IN s.y <= a.room_d - unit_d_y /\ s.seat_idx <= a.seats_required

DW_Body(a, s) ==
  LET unit_w_x == _ws_size(FURNITURE, a.ws_type)[2]
      unit_d_y == _ws_size(FURNITURE, a.ws_type)[1]
      left_unit == Rect(0, s.y, unit_w_x, unit_d_y)
      can_place_left ==
        /\ WallSlotOk(a, s, left_unit, a.door_clear_radius, a.room_w, "L",
                      s.y, unit_d_y, unit_w_x, FALSE)
        /\ s.seat_idx <= a.seats_required
      s1 == IF can_place_left
            THEN TakeWallSlot(a, s, left_unit, a.room_w, "L", s.y, unit_d_y,
                              unit_w_x, FALSE)
            ELSE s
      right_unit == Rect(a.room_w - unit_w_x, s.y, unit_w_x, unit_d_y)
      can_place_right ==
        /\ WallSlotOk(a, s1, right_unit, a.door_clear_radius, a.room_w, "R",
                      s.y, unit_d_y, unit_w_x, FALSE)
        /\ s1.seat_idx <= a.seats_required
      s2 == IF can_place_right
            THEN TakeWallSlot(a, s1, right_unit, a.room_w, "R", s.y,
                              unit_d_y, unit_w_x, FALSE)
            ELSE s1
  IN [s2 EXCEPT !.y = @ + unit_d_y + a.gap]

DW_Return(a, s) ==
  LET seats_placed == s.seat_idx - 1
      ok == /\ seats_placed >= a.seats_required
            /\ _door_clearance_ok_for_items(s.items, a.door_tip)
  IN Candidate(ok, seats_placed, a.seats_required, s.items, a.ws_type,
               "double_wall")

\* ---- place_workstations_double_wall_top_bottom
\* the sweep start and signed step of the two top/bottom generators
TB_Start(a) ==
  LET unit_w_x == _ws_size(FURNITURE, a.ws_type)[1]
      x_limit == a.room_w - unit_w_x
      step == unit_w_x + a.gap
  IN IF a.start_from = "R" THEN [x |-> x_limit, step |-> -step]
     ELSE [x |-> 0, step |-> step]

TB_in_range(a, xx) ==
  0 <= xx /\ xx <= a.room_w - _ws_size(FURNITURE, a.ws_type)[1]

DWTB_Init(a) ==
  [x |-> TB_Start(a).x, step |-> TB_Start(a).step, seat_idx |-> 1,
   items |-> <<>>,
   placed |-> list_copy(a.blocks).val, placed_obj |-> list_copy(a.blocks).obj]

DWTB_Cond(a, s) == TB_in_range(a, s.x) /\ s.seat_idx <= a.seats_required

DWTB_Body(a, s) ==
  LET unit_w_x == _ws_size(FURNITURE, a.ws_type)[1]
      unit_d_y == _ws_size(FURNITURE, a.ws_type)[2]
      top_unit == Rect(s.x, 0, unit_w_x, unit_d_y)
      can_place_top ==
        /\ WallSlotOk(a, s, top_unit, a.door_clear_radius, a.room_d, "T",
                      s.x, unit_w_x, unit_d_y, TRUE)
        /\ s.seat_idx <= a.seats_required
      s1 == IF can_place_top
            THEN TakeWallSlot(a, s, top_unit, a.room_d, "T", s.x, unit_w_x,
                              unit_d_y, TRUE)
            ELSE s
      bottom_unit == Rect(s.x, a.room_d - unit_d_y, unit_w_x, unit_d_y)
      can_place_bottom ==
        /\ WallSlotOk(a, s1, bottom_unit, a.door_clear_radius, a.room_d, "B",
                      s.x, unit_w_x, unit_d_y, TRUE)
        /\ s1.seat_idx <= a.seats_required
      s2 == IF can_place_bottom
            THEN TakeWallSlot(a, s1, bottom_unit, a.room_d, "B", s.x,
                              unit_w_x, unit_d_y, TRUE)
            ELSE s1
  IN [s2 EXCEPT !.x = @ + s.step]

DWTB_Return(a, s) ==
  LET seats_placed == s.seat_idx - 1
      ok == /\ seats_placed >= a.seats_required
            /\ _door_clearance_ok_for_items(s.items, a.door_tip)
  IN Candidate(ok, seats_placed, a.seats_required, s.items, a.ws_type,
               "double_wall_top_bottom")

\* ---- place_workstations_single_wall
SW_Init(a) ==
  [y |-> 0, seat_idx |-> 1, items |-> <<>>,
   placed |-> list_copy(a.blocks).val, placed_obj |-> list_copy(a.blocks).obj]

SW_Cond(a, s) ==
  LET unit_d_y == _ws_size(FURNITURE, a.ws_type)[1]
  IN s.y <= a.room_d - unit_d_y /\ s.seat_idx <= a.seats_required

SW_Body(a, s) ==
  LET unit_w_x == _ws_size(FURNITURE, a.ws_type)[2]
      unit_d_y == _ws_size(FURNITURE, a.ws_type)[1]
      x == IF a.side = "L" THEN 0 ELSE a.room_w - unit_w_x
      wall_side == IF a.side = "L" THEN "L" ELSE "R"
      unit == Rect(x, s.y, unit_w_x, unit_d_y)
      can_place_here ==
        WallSlotOk(a, s, unit, a.door_clear_radius, a.room_w, wall_side,
                   s.y, unit_d_y, unit_w_x, FALSE)
      s1 == IF can_place_here
            THEN TakeWallSlot(a, s, unit, a.room_w, wall_side, s.y, unit_d_y,
                              unit_w_x, FALSE)
            ELSE s
  IN [s1 EXCEPT !.y = @ + unit_d_y + a.gap]

SW_Return(a, s) ==
  LET seats_placed == s.seat_idx - 1
      ok == /\ seats_placed >= a.seats_required
            /\ _door_clearance_ok_for_items(s.items, a.door_tip)
  IN Candidate(ok, seats_placed, a.seats_required, s.items, a.ws_type,
               IF a.side = "L" THEN "single_wall_L"
               ELSE IF a.side = "R" THEN "single_wall_R"
               ELSE IF a.side = "T" THEN "single_wall_T" ELSE "single_wall_B")

\* ---- place_workstations_single_wall_tb
SWTB_effective_door_radius(a) ==
  IF a.door_tip # None
  THEN LET door_is_top == 2 * a.door_tip[1][2] < a.room_d
       IN IF (door_is_top /\ a.side = "B") \/ (~door_is_top /\ a.side = "T")
          THEN 0 ELSE a.door_clear_radius
  ELSE a.door_clear_radius

SWTB_Init(a) ==
  [x |-> TB_Start(a).x, step |-> TB_Start(a).step, seat_idx |-> 1,
   items |-> <<>>,
   placed |-> list_copy(a.blocks).val, placed_obj |-> list_copy(a.blocks).obj]

SWTB_Cond(a, s) == TB_in_range(a, s.x) /\ s.seat_idx <= a.seats_required

SWTB_Body(a, s) ==
  LET unit_w_x == _ws_size(FURNITURE, a.ws_type)[1]
      unit_d_y == _ws_size(FURNITURE, a.ws_type)[2]
      y == IF a.side = "T" THEN 0 ELSE a.room_d - unit_d_y
      wall_side == IF a.side = "T" THEN "T" ELSE "B"
      unit == Rect(s.x, y, unit_w_x, unit_d_y)
      can_place_here ==
        WallSlotOk(a, s, unit, SWTB_effective_door_radius(a), a.room_d,
                   wall_side, s.x, unit_w_x, unit_d_y, TRUE)
      s1 == IF can_place_here
            THEN TakeWallSlot(a, s, unit, a.room_d, wall_side, s.x, unit_w_x,
                              unit_d_y, TRUE)
            ELSE s
  IN [s1 EXCEPT !.x = @ + s.step]

SWTB_Return(a, s) == SW_Return(a, s)


\* ---- place_workstations_face_to_face_center
\* the dict of the early returns
F2F_Fail(a) ==
  Candidate(FALSE, 0, a.seats_required, <<>>, a.ws_type,
            "face_to_face_center")

\* F2F_Setup with the chair space alone kept behind the desks
F2F_Setup_chair_space_only(a) ==
  LET ws_w == _ws_size(FURNITURE, a.ws_type)[1]
      ws_d == _ws_size(FURNITURE, a.ws_type)[2]
      pairs == a.seats_required \div 2
      has_single == (a.seats_required % 2) = 1
      total_units == pairs
      total_w == total_units * ws_w + Max(0, total_units - 1) * a.gap
      door_side == a.door_side
      center_line == IntHalf(a.room_d)
      x_start0 == IF door_side = "L" THEN a.room_w - total_w
                  ELSE IF door_side = "R" THEN 0
                  ELSE IntHalf(a.room_w - total_w)
      y0_a == IF door_side = "T" THEN a.room_d - ws_d * 2
              ELSE IF door_side = "B" THEN 0
              ELSE IntHalf(2 * center_line - ws_d * 2)
      desk_depth == IF has_single THEN 600
                    ELSE Min(_parse_desk_depth(a.ws_type), ws_d)
      unit_d_y == IF has_single THEN desk_depth * 2 ELSE ws_d * 2
      y0_b == IF has_single THEN IntHalf(2 * center_line - unit_d_y)
              ELSE y0_a
      chair_space == CHAIR_SIZE + CHAIR_DESK_GAP
      min_back_clearance == chair_space
      y0_min == min_back_clearance
      y0_max == a.room_d - unit_d_y - min_back_clearance
      y0_c == Max(y0_min, Min(y0_max, y0_b))
      y0_down == y2(a.door_rect[1])
      y0_up == a.door_rect[1].y - unit_d_y
      y0_d == IF a.door_rect # None /\ door_side \in {"L", "R"}
                 /\ ~(y0_c + unit_d_y <= a.door_rect[1].y
                      \/ y0_c >= y2(a.door_rect[1]))
              THEN IF 0 <= y0_down /\ y0_down + unit_d_y <= a.room_d
                   THEN y0_down
                   ELSE IF 0 <= y0_up /\ y0_up + unit_d_y <= a.room_d
                   THEN y0_up
                   ELSE y0_c
              ELSE y0_c
      x_start == IF a.door_rect # None /\ door_side \in {"T", "B"}
                 THEN 0 ELSE x_start0
  IN [fail |-> \/ a.room_d < ws_d * 2
               \/ total_w > a.room_w
               \/ ~(y0_max >= y0_min),
      has_single |-> has_single, total_units |-> total_units,
      unit_d_y |-> unit_d_y, desk_depth |-> desk_depth,
      center_line |-> center_line, y0 |-> y0_d, x_start |-> x_start,
      door_side |-> door_side]

\* The values fixed before the sweep: has_single, total_units, unit_d_y,
\* desk_depth, center_line, y0, x_start; fail tells that one of the three
\* early returns is taken.
F2F_Setup(a) ==
  LET ws_w == _ws_size(FURNITURE, a.ws_type)[1]
      ws_d == _ws_size(FURNITURE, a.ws_type)[2]
      pairs == a.seats_required \div 2
      has_single == (a.seats_required % 2) = 1
      total_units == pairs
      total_w == total_units * ws_w + Max(0, total_units - 1) * a.gap
      door_side == a.door_side
      center_line == IntHalf(a.room_d)
      x_start0 == IF door_side = "L" THEN a.room_w - total_w
                  ELSE IF door_side = "R" THEN 0
                  ELSE IntHalf(a.room_w - total_w)
      y0_a == IF door_side = "T" THEN a.room_d - ws_d * 2
              ELSE IF door_side = "B" THEN 0
              ELSE IntHalf(2 * center_line - ws_d * 2)
      desk_depth == IF has_single THEN 600
                    ELSE Min(_parse_desk_depth(a.ws_type), ws_d)
      unit_d_y == IF has_single THEN desk_depth * 2 ELSE ws_d * 2
      y0_b == IF has_single THEN IntHalf(2 * center_line - unit_d_y)
              ELSE y0_a
      chair_space == CHAIR_SIZE + CHAIR_DESK_GAP
      min_back_clearance == Max(chair_space, 850)
      y0_min == min_back_clearance
      y0_max == a.room_d - unit_d_y - min_back_clearance
      y0_c == Max(y0_min, Min(y0_max, y0_b))
      y0_down == y2(a.door_rect[1])
      y0_up == a.door_rect[1].y - unit_d_y
      y0_d == IF a.door_rect # None /\ door_side \in {"L", "R"}
                 /\ ~(y0_c + unit_d_y <= a.door_rect[1].y
                      \/ y0_c >= y2(a.door_rect[1]))
              THEN IF 0 <= y0_down /\ y0_down + unit_d_y <= a.room_d
                   THEN y0_down
                   ELSE IF 0 <= y0_up /\ y0_up + unit_d_y <= a.room_d
                   THEN y0_up
                   ELSE y0_c
              ELSE y0_c
      x_start == IF a.door_rect # None /\ door_side \in {"T", "B"}
                 THEN 0 ELSE x_start0
  IN [fail |-> \/ a.room_d < ws_d * 2
               \/ total_w > a.room_w
               \/ ~(y0_max >= y0_min),
      has_single |-> has_single, total_units |-> total_units,
      unit_d_y |-> unit_d_y, desk_depth |-> desk_depth,
      center_line |-> center_line, y0 |-> y0_d, x_start |-> x_start,
      door_side |-> door_side]

\* the locals before the sweep; c holds the values fixed before it
F2F_Locals(a, c) ==
  [c |-> c, fail |-> c.fail,
   x |-> IF c.fail THEN 0 ELSE c.x_start,
   seat_idx |-> 1, items |-> <<>>,
   placed |-> list_copy(a.blocks).val, placed_obj |-> list_copy(a.blocks).obj,
   unit_rects |-> <<>>, units_placed |-> 0]

F2F_Init(a) == F2F_Locals(a, F2F_Setup(a))

F2F_Cond(a, s) ==
  /\ ~s.fail
  /\ s.units_placed < s.c.total_units
  /\ s.x <= a.room_w - _ws_size(FURNITURE, a.ws_type)[1]

\* the rect _place_unit tests, and its test
F2F_unit(a, s, x, y) ==
  Rect(x, y, _ws_size(FURNITURE, a.ws_type)[1], s.c.unit_d_y)

F2F_place_unit_ok(a, s, x, y) ==
  /\ can_place(F2F_unit(a, s, x, y), a.room_w, a.room_d, s.placed)
  /\ _clear_of_point(F2F_unit(a, s, x, y), a.door_tip, 200)

F2F_Body(a, s) ==
  LET c == s.c
      ws_w == _ws_size(FURNITURE, a.ws_type)[1]
      unit_w_x == ws_w
      seats_target == a.seats_required
      top_desk_y == c.center_line - c.desk_depth
      bottom_desk_y == c.center_line
      items1 == IF s.seat_idx <= seats_target
                THEN add_free_desk_and_chair(s.items, s.seat_idx, a.ws_type,
                        s.x, top_desk_y, ws_w, c.desk_depth, "up",
                        <<c.desk_depth>>)
                ELSE s.items
      idx1 == IF s.seat_idx <= seats_target THEN s.seat_idx + 1
              ELSE s.seat_idx
      items2 == IF idx1 <= seats_target
                THEN add_free_desk_and_chair(items1, idx1, a.ws_type,
                        s.x, bottom_desk_y, ws_w, c.desk_depth, "down",
                        <<c.desk_depth>>)
                ELSE items1
      idx2 == IF idx1 <= seats_target THEN idx1 + 1 ELSE idx1
  IN IF ~F2F_place_unit_ok(a, s, s.x, c.y0)
     THEN [s EXCEPT !.x = @ + unit_w_x + a.gap]
     ELSE [s EXCEPT !.placed = Append(@, F2F_unit(a, s, s.x, c.y0)),
                    !.unit_rects = Append(@, F2F_unit(a, s, s.x, c.y0)),
                    !.units_placed = @ + 1,
                    !.items = items2,
                    !.seat_idx = idx2,
                    !.x = @ + unit_w_x + a.gap]

\* The attach sides tried for the single rotated desk, in order, each with
\* the unit it is attached to.
F2F_single_candidates(a, s) ==
  LET leftmost == s.unit_rects[1]
      rightmost == s.unit_rects[Len(s.unit_rects)]
  IN IF s.c.door_side = "L"
     THEN << <<"R", rightmost>>, <<"L", leftmost>> >>
     ELSE IF s.c.door_side = "R"
     THEN << <<"L", leftmost>>, <<"R", rightmost>> >>
     ELSE << <<"R", rightmost>>, <<"L", leftmost>> >>

\* the rotated desk rect on one attach side
F2F_rotated_rect(a, cand) ==
  LET rotated_w == 600
      rotated_d == 1200
      desk_x == IF cand[1] = "R" THEN cand[2].x + cand[2].w
                ELSE cand[2].x - rotated_w
      desk_y == IntHalf(a.room_d - rotated_d)
  IN Rect(desk_x, desk_y, rotated_w, rotated_d)

\* F2F_side_admitted without the 1000 mm kept to the wall of the attach side
F2F_side_admitted_no_wall_margin(a, s, cand) ==
  LET r == F2F_rotated_rect(a, cand)
  IN /\ can_place(r, a.room_w, a.room_d, s.placed)
     /\ _clear_of_point(r, a.door_tip, 900)

\* whether the loop over the attach sides accepts this side
F2F_side_admitted(a, s, cand) ==
  LET r == F2F_rotated_rect(a, cand)
  IN /\ IF cand[1] = "R" THEN ~(a.room_w - (r.x + r.w) < 1000)
        ELSE ~(r.x < 1000)
     /\ can_place(r, a.room_w, a.room_d, s.placed)
     /\ _clear_of_point(r, a.door_tip, 900)

\* the locals after the block that places the single rotated desk;
\* single_failed tells that the block returned the failure dict
\* the locals after the rotated desk was added on the attach side cand
F2F_add_single(a, s, cand) ==
  LET r == F2F_rotated_rect(a, cand)
  IN [s EXCEPT !.items = add_lr_desk_and_chair(@, s.seat_idx, r.x, r.y, r.w,
                                               r.d, cand[1], 90),
               !.seat_idx = @ + 1]

F2F_Single(a, s) ==
  IF s.fail THEN [s EXCEPT !.fail = TRUE]
  ELSE IF s.c.has_single /\ s.seat_idx <= a.seats_required
          /\ s.unit_rects # <<>>
  THEN IF F2F_side_admitted(a, s, F2F_single_candidates(a, s)[1])
       THEN F2F_add_single(a, s, F2F_single_candidates(a, s)[1])
       ELSE IF F2F_side_admitted(a, s, F2F_single_candidates(a, s)[2])
       THEN F2F_add_single(a, s, F2F_single_candidates(a, s)[2])
       ELSE [s EXCEPT !.fail = TRUE]
  ELSE s

\* the two dim_v items appended when there is at least one desk
F2F_dims(a, s) ==
  LET desk_rects == RectsOfType(s.items, "desk")
      li == CHOOSE i \in 1..Len(desk_rects) :
              /\ \A j \in 1..Len(desk_rects) :
                   desk_rects[i].x <= desk_rects[j].x
              /\ \A j \in 1..(i - 1) : desk_rects[j].x > desk_rects[i].x
      leftmost == desk_rects[li]
      dim_x == Max(60, Min(a.room_w - 60,
                           IntHalf(2 * leftmost.x + leftmost.w)))
      wall_half == 5
      top_desk == s.c.center_line - s.c.desk_depth
      bottom_desk == s.c.center_line + s.c.desk_depth
      inner_top == wall_half
      inner_bottom == a.room_d - wall_half
      top_gap == Max(0, top_desk - inner_top)
      bottom_gap == Max(0, inner_bottom - bottom_desk)
  IN IF desk_rects = <<>> THEN <<>>
     ELSE << Item("dim_v", Rect(dim_x, inner_top, 0, top_gap),
                  <<"", 0, "">>, "", 0),
             Item("dim_v", Rect(dim_x, inner_bottom - bottom_gap, 0,
                                bottom_gap), <<"", 0, "">>, "", 0) >>

\* the dict returned with the items list as it is at the end
F2F_Result(a, s, items) ==
  LET seats_placed == s.seat_idx - 1
      ok == /\ seats_placed >= a.seats_required
            /\ _door_clearance_ok_for_items(items, a.door_tip)
  IN Candidate(ok, seats_placed, a.seats_required, items, a.ws_type,
               "face_to_face_center")

\* the code after the block of the single rotated desk; s holds the locals
\* after that block
F2F_Finish(a, s) ==
  IF s.fail
  THEN Candidate(FALSE, s.seat_idx - 1, a.seats_required, s.items,
                 a.ws_type, "face_to_face_center")
  ELSE F2F_Result(a, s, s.items \o F2F_dims(a, s))

F2F_Return(a, s) ==
  IF s.fail THEN F2F_Fail(a)
  ELSE F2F_Finish(a, F2F_Single(a, s))


\* ---- place_workstations_mixed
M_is_horizontal(a) == a.wall_side \in {"T", "B"}
M_unit_w_x(a) == IF M_is_horizontal(a) THEN _ws_size(FURNITURE, a.ws_type)[1]
                 ELSE _ws_size(FURNITURE, a.ws_type)[2]
M_unit_d_y(a) == IF M_is_horizontal(a) THEN _ws_size(FURNITURE, a.ws_type)[2]
                 ELSE _ws_size(FURNITURE, a.ws_type)[1]

\* phase is "wall" during the sweep along the wall, "face" during the loop
\* over the face-to-face pairs and "end" when the function returns; pos is
\* the y (walls L, R) or x (walls T, B) of the wall sweep, i the number of
\* iterations of the pair loop that have begun and x its coordinate.
M_Init(a) ==
  [phase |-> "wall", pos |-> 0, seat_idx |-> 1, items |-> <<>>,
   placed |-> list_copy(a.blocks).val, placed_obj |-> list_copy(a.blocks).obj,
   wall_seats_placed |-> 0, i |-> 0, x |-> 0]

M_WallCond(a, s) ==
  /\ s.wall_seats_placed < a.wall_seats
  /\ s.seat_idx <= a.seats_required
  /\ IF M_is_horizontal(a) THEN s.pos + M_unit_w_x(a) <= a.room_w
     ELSE s.pos + M_unit_d_y(a) <= a.room_d

M_WallBody(a, s) ==
  LET unit_w_x == M_unit_w_x(a)
      unit_d_y == M_unit_d_y(a)
      unit == CASE a.wall_side = "L" -> Rect(0, s.pos, unit_w_x, unit_d_y)
                [] a.wall_side = "R" ->
                     Rect(a.room_w - unit_w_x, s.pos, unit_w_x, unit_d_y)
                [] a.wall_side = "T" -> Rect(s.pos, 0, unit_w_x, unit_d_y)
                [] OTHER ->
                     Rect(s.pos, a.room_d - unit_d_y, unit_w_x, unit_d_y)
      side == IF a.wall_side \in {"L", "R", "T"} THEN a.wall_side ELSE "B"
      room_size == IF M_is_horizontal(a) THEN a.room_d ELSE a.room_w
      along == IF M_is_horizontal(a) THEN unit_w_x ELSE unit_d_y
      depth == IF M_is_horizontal(a) THEN unit_d_y ELSE unit_w_x
      can_place_here ==
        WallSlotOk(a, s, unit, a.door_clear_radius, room_size, side, s.pos,
                   along, depth, M_is_horizontal(a))
      s1 == IF can_place_here
            THEN [TakeWallSlot(a, s, unit, room_size, side, s.pos, along,
                               depth, M_is_horizontal(a))
                    EXCEPT !.wall_seats_placed = @ + 1]
            ELSE s
  IN [s1 EXCEPT !.pos = @ + along]

\* the code between the wall sweep and the pair loop
M_Mid(a, s) ==
  LET remaining_seats == a.seats_required - (s.seat_idx - 1)
      face_unit_d_y == _ws_size(FURNITURE, a.ws_type)[2] * 2
      x_start == IF a.wall_side = "L" THEN M_unit_w_x(a) + 100 ELSE 0
  IN IF remaining_seats > 0
     THEN IF a.room_d < face_unit_d_y THEN [s EXCEPT !.phase = "end"]
          ELSE [s EXCEPT !.phase = "face", !.x = x_start]
     ELSE [s EXCEPT !.phase = "end"]

M_pairs_needed(a, s) ==
  \* remaining_seats is fixed before the loop: seats_required minus the
  \* seats the wall sweep placed
  (a.seats_required - s.wall_seats_placed + 1) \div 2

M_FaceCond(a, s) ==
  /\ s.i < M_pairs_needed(a, s)
  /\ ~(s.seat_idx > a.seats_required)
  /\ ~(s.x + _ws_size(FURNITURE, a.ws_type)[1] > a.room_w)

M_FaceBody(a, s) ==
  LET ws_w == _ws_size(FURNITURE, a.ws_type)[1]
      ws_d == _ws_size(FURNITURE, a.ws_type)[2]
      face_unit_w_x == ws_w
      face_unit_d_y == ws_d * 2
      center_line == IntHalf(a.room_d)
      y0 == IntHalf(2 * center_line - face_unit_d_y)
      desk_depth == Min(_parse_desk_depth(a.ws_type), ws_d)
      unit == Rect(s.x, y0, face_unit_w_x, face_unit_d_y)
      items1 == add_free_desk_and_chair(s.items, s.seat_idx, a.ws_type, s.x,
                   y0, ws_w, desk_depth, "up", <<desk_depth>>)
      idx1 == s.seat_idx + 1
      items2 == IF idx1 <= a.seats_required
                THEN add_free_desk_and_chair(items1, idx1, a.ws_type, s.x,
                        y0 + face_unit_d_y - desk_depth, ws_w, desk_depth,
                        "down", <<desk_depth>>)
                ELSE items1
      idx2 == IF idx1 <= a.seats_required THEN idx1 + 1 ELSE idx1
      s1 == IF can_place(unit, a.room_w, a.room_d, s.placed)
               /\ _clear_of_point(unit, a.door_tip, 200)
            THEN [s EXCEPT !.placed = Append(@, unit), !.items = items2,
                           !.seat_idx = idx2]
            ELSE s
  IN [s1 EXCEPT !.x = @ + face_unit_w_x, !.i = @ + 1]

M_Cond(a, s) ==
  \/ s.phase = "wall"
  \/ s.phase = "face" /\ M_FaceCond(a, s)

M_Body(a, s) ==
  IF s.phase = "wall"
  THEN IF M_WallCond(a, s) THEN M_WallBody(a, s) ELSE M_Mid(a, s)
  ELSE M_FaceBody(a, s)

M_Return(a, s) ==
  LET seats_placed == s.seat_idx - 1
      ok == seats_placed >= a.seats_required
  IN Candidate(ok, seats_placed, a.seats_required, s.items, a.ws_type,
               "mixed")

\* ---- every generator
Generators ==
  {"double_wall", "double_wall_top_bottom", "single_wall", "single_wall_tb",
   "face_to_face_center", "mixed"}

GenInit(a) ==
  CASE a.gen = "double_wall" -> DW_Init(a)
    [] a.gen = "double_wall_top_bottom" -> DWTB_Init(a)
    [] a.gen = "single_wall" -> SW_Init(a)
    [] a.gen = "single_wall_tb" -> SWTB_Init(a)
    [] a.gen = "face_to_face_center" -> F2F_Init(a)
    [] a.gen = "mixed" -> M_Init(a)

GenCond(a, s) ==
  CASE a.gen = "double_wall" -> DW_Cond(a, s)
    [] a.gen = "double_wall_top_bottom" -> DWTB_Cond(a, s)
    [] a.gen = "single_wall" -> SW_Cond(a, s)
    [] a.gen = "single_wall_tb" -> SWTB_Cond(a, s)
    [] a.gen = "face_to_face_center" -> F2F_Cond(a, s)
    [] a.gen = "mixed" -> M_Cond(a, s)

GenBody(a, s) ==
  CASE a.gen = "double_wall" -> DW_Body(a, s)
    [] a.gen = "double_wall_top_bottom" -> DWTB_Body(a, s)
    [] a.gen = "single_wall" -> SW_Body(a, s)
    [] a.gen = "single_wall_tb" -> SWTB_Body(a, s)
    [] a.gen = "face_to_face_center" -> F2F_Body(a, s)
    [] a.gen = "mixed" -> M_Body(a, s)

GenReturn(a, s) ==
  CASE a.gen = "double_wall" -> DW_Return(a, s)
    [] a.gen = "double_wall_top_bottom" -> DWTB_Return(a, s)
    [] a.gen = "single_wall" -> SW_Return(a, s)
    [] a.gen = "single_wall_tb" -> SWTB_Return(a, s)
    [] a.gen = "face_to_face_center" -> F2F_Return(a, s)
    [] a.gen = "mixed" -> M_Return(a, s)

RECURSIVE GenLoop(_, _)
GenLoop(a, s) == IF GenCond(a, s) THEN GenLoop(a, GenBody(a, s)) ELSE s

\* the dict a whole call returns
RunGenerator(a) == GenReturn(a, GenLoop(a, GenInit(a)))

\* the argument record of a call
Args(gen, room_w, room_d, ws_type, seats_required, blocks, gap, start_from, side, door_tip, door_clear_radius, door_side, door_rect, wall_seats, wall_side) ==
  [gen |-> gen, room_w |-> room_w, room_d |-> room_d, ws_type |-> ws_type,
   seats_required |-> seats_required, blocks |-> blocks, gap |-> gap,
   start_from |-> start_from, side |-> side, door_tip |-> door_tip,
   door_clear_radius |-> door_clear_radius, door_side |-> door_side,
   door_rect |-> door_rect, wall_seats |-> wall_seats,
   wall_side |-> wall_side]

\* ------------------------------------------------------------------------
\* app.py: build_blocks
\* ------------------------------------------------------------------------
\* (blocks, door_rect, door_side, tip)
build_blocks(room_w, room_d, door_w, door_d, door_side, door_offset) ==
  LET horizontal == door_side \in {"T", "B"}
      max_offset == IF horizontal THEN Max(0, room_w - door_w)
                    ELSE Max(0, room_d - door_w)
      along == IF door_offset = None THEN max_offset \div 2
               ELSE Max(0, Min(door_offset[1], max_offset))
      door_x == IF horizontal THEN along
                ELSE IF door_side = "L" THEN 0 ELSE room_w - door_d
      door_y == IF horizontal
                THEN (IF door_side = "T" THEN 0 ELSE room_d - door_d)
                ELSE along
      door_rect == IF horizontal THEN Rect(door_x, door_y, door_w, door_d)
                   ELSE Rect(door_x, door_y, door_d, door_w)
      tip == CASE door_side = "T" -> <<door_rect.x, door_rect.w>>
               [] door_side = "B" -> <<door_rect.x, room_d - door_rect.w>>
               [] door_side = "L" -> <<door_rect.d, door_rect.y>>
               [] OTHER -> <<room_w - door_rect.d, door_rect.y>>
  IN << <<door_rect>>, door_rect, door_side, tip >>


\* ------------------------------------------------------------------------
\* patterns.py: equipment placement
\* ------------------------------------------------------------------------
\* twice the centre of a rect (the centre itself may end in .5)
_item_center(rect) == << 2 * rect.x + rect.w, 2 * rect.y + rect.d >>

_rect_wall_sides(r, room_w, room_d) ==
  (IF r.x = 0 THEN <<"L">> ELSE <<>>)
  \o (IF r.x + r.w = room_w THEN <<"R">> ELSE <<>>)
  \o (IF r.y = 0 THEN <<"T">> ELSE <<>>)
  \o (IF r.y + r.d = room_d THEN <<"B">> ELSE <<>>)

\* _clearance_ok_same_wall that rejects a rect only when it overlaps a desk
\* along the wall
ClearanceOverlapOnly(r, desk_rects, wall, clearance_mm) ==
  IF clearance_mm <= 0 THEN TRUE
  ELSE IF desk_rects = <<>> THEN TRUE
  ELSE IF wall \in {"L", "R"}
  THEN \A i \in 1..Len(desk_rects) :
         LET d == desk_rects[i]
         IN r.y >= y2(d) \/ d.y >= y2(r)
  ELSE \A i \in 1..Len(desk_rects) :
         LET d == desk_rects[i]
         IN r.x >= x2(d) \/ d.x >= x2(r)

_clearance_ok_same_wall(r, desk_rects, wall, clearance_mm) ==
  IF clearance_mm <= 0 THEN TRUE
  ELSE IF desk_rects = <<>> THEN TRUE
  ELSE IF wall \in {"L", "R"}
  THEN \A i \in 1..Len(desk_rects) :
         LET d == desk_rects[i]
             gap == IF r.y >= y2(d) THEN r.y - y2(d)
                    ELSE IF d.y >= y2(r) THEN d.y - y2(r)
                    ELSE 0
         IN ~(gap < clearance_mm)
  ELSE \A i \in 1..Len(desk_rects) :
         LET d == desk_rects[i]
             gap == IF r.x >= x2(d) THEN r.x - x2(d)
                    ELSE IF d.x >= x2(r) THEN d.x - x2(r)
                    ELSE 0
         IN ~(gap < clearance_mm)

\* rest.remove(t) for one type: the first occurrence is dropped, a missing
\* type leaves the list as it is
RECURSIVE RemoveFirst(_, _)
RemoveFirst(rest, t) ==
  IF rest = <<>> THEN <<>>
  ELSE IF Head(rest) = t THEN Tail(rest)
  ELSE <<Head(rest)>> \o RemoveFirst(Tail(rest), t)

RECURSIVE _remove_equipment_types(_, _)
_remove_equipment_types(remaining, placed_items) ==
  IF placed_items = <<>> THEN remaining
  ELSE _remove_equipment_types(RemoveFirst(remaining, Head(placed_items).type),
                               Tail(placed_items))

\* ---- place_equipment_wall_only
\* w is the record of the arguments of the call: room_w, room_d, equipment,
\* blocks, wall, start_y, gap_y, avoid_centers, avoid_radius_mm,
\* desk_rects_same_wall, desk_clearance_mm, equipment_clearance_mm,
\* start_from.  e is the record of the locals items, placed, y, start_y, idx.

\* the rect tried for key eq at position pos
PEWO_rect(w, e, eq, pos) ==
  LET w0 == FURNITURE[eq].w
      d0 == FURNITURE[eq].d
      along == Max(w0, d0)
      depth == Min(w0, d0)
  IN IF w.wall \in {"L", "R"}
     THEN Rect(IF w.wall = "L" THEN 0 ELSE w.room_w - depth, pos, depth,
               along)
     ELSE Rect(pos, IF w.wall = "T" THEN 0 ELSE w.room_d - depth, along,
               depth)

\* PEWO_accepts with the rect tested against the room only
AcceptsInsideRoom(w, e, eq, pos) ==
  LET r == PEWO_rect(w, e, eq, pos)
      c == _item_center(r)
      too_close ==
        /\ w.avoid_centers # None /\ w.avoid_centers[1] # <<>>
        /\ w.avoid_radius_mm # None /\ w.avoid_radius_mm[1] # 0
        /\ \E i \in 1..Len(w.avoid_centers[1]) :
             LET dx == c[1] - w.avoid_centers[1][i][1]
                 dy == c[2] - w.avoid_centers[1][i][2]
             IN dx * dx + dy * dy
                  <= 4 * w.avoid_radius_mm[1] * w.avoid_radius_mm[1]
  IN /\ ~too_close
     /\ \/ w.desk_rects_same_wall = None
        \/ _clearance_ok_same_wall(r, w.desk_rects_same_wall[1], w.wall,
                                   w.desk_clearance_mm)
     /\ inside_room(r, w.room_w, w.room_d)

\* whether the sweep accepts position pos for key eq
PEWO_accepts(w, e, eq, pos) ==
  LET r == PEWO_rect(w, e, eq, pos)
      c == _item_center(r)
      too_close ==
        /\ w.avoid_centers # None /\ w.avoid_centers[1] # <<>>
        /\ w.avoid_radius_mm # None /\ w.avoid_radius_mm[1] # 0
        /\ \E i \in 1..Len(w.avoid_centers[1]) :
             LET dx == c[1] - w.avoid_centers[1][i][1]
                 dy == c[2] - w.avoid_centers[1][i][2]
             IN dx * dx + dy * dy
                  <= 4 * w.avoid_radius_mm[1] * w.avoid_radius_mm[1]
  IN /\ ~too_close
     /\ \/ w.desk_rects_same_wall = None
        \/ _clearance_ok_same_wall(r, w.desk_rects_same_wall[1], w.wall,
                                   w.desk_clearance_mm)
     /\ can_place(r, w.room_w, w.room_d, e.placed)

\* The first k of lo..hi whose position pos + k * step the sweep accepts,
\* as <<k>>, or None.  The range is halved so that the evaluation stays
\* shallow; the positions are still tried in the order of the loop.
RECURSIVE PEWO_first(_, _, _, _, _, _, _)
PEWO_first(w, e, eq, pos, step, lo, hi) ==
  IF lo > hi THEN None
  ELSE IF lo = hi
  THEN (IF PEWO_accepts(w, e, eq, pos + lo * step) THEN <<lo>> ELSE None)
  ELSE LET mid == (lo + hi) \div 2
           left == PEWO_first(w, e, eq, pos, step, lo, mid)
       IN IF left # None THEN left
          ELSE PEWO_first(w, e, eq, pos, step, mid + 1, hi)

\* The while loop over pos: the accepted position, or None.  The loop visits
\* pos, pos + step, pos + 2 * step, ... as long as the position is within
\* 0..max_pos and stops at the first one it accepts.
PEWO_sweep(w, e, eq, pos, step, max_pos) ==
  LET n == IF ~(0 <= pos /\ pos <= max_pos) THEN 0
           ELSE IF step > 0 THEN (max_pos - pos) \div step + 1
           ELSE pos \div (-step) + 1
      k == PEWO_first(w, e, eq, pos, step, 0, n - 1)
  IN IF k = None THEN None ELSE <<pos + step * k[1]>>

\* PEWO_after with no clearance buffer appended to placed
PEWO_after_no_buffer(w, e, eq, found) ==
  LET w0 == FURNITURE[eq].w
      d0 == FURNITURE[eq].d
      along == Max(w0, d0)
      depth == Min(w0, d0)
      lr == w.wall \in {"L", "R"}
      y1 == IF lr THEN e.y
            ELSE IF w.wall = "T" THEN 0 ELSE w.room_d - depth
      r == PEWO_rect(w, e, eq, found[1])
  IN IF found = None THEN [e EXCEPT !.y = y1]
     ELSE [e EXCEPT
             !.items = Append(@, Item(eq, r, <<"EQ", e.idx, "">>, "", 0)),
             !.placed = Append(@, r),
             !.idx = @ + 1,
             !.y = IF lr THEN found[1] + along + w.gap_y ELSE y1,
             !.start_y = IF lr THEN @ ELSE found[1] + along + w.gap_y]

\* the locals after the sweep for key eq: found is the accepted position,
\* or None
PEWO_after(w, e, eq, found) ==
  LET w0 == FURNITURE[eq].w
      d0 == FURNITURE[eq].d
      along == Max(w0, d0)
      depth == Min(w0, d0)
      lr == w.wall \in {"L", "R"}
      y1 == IF lr THEN e.y
            ELSE IF w.wall = "T" THEN 0 ELSE w.room_d - depth
      r == PEWO_rect(w, e, eq, found[1])
      buf == IF lr
             THEN Rect(r.x, r.y - w.equipment_clearance_mm, r.w,
                       r.d + w.equipment_clearance_mm * 2)
             ELSE Rect(r.x - w.equipment_clearance_mm, r.y,
                       r.w + w.equipment_clearance_mm * 2, r.d)
  IN IF found = None THEN [e EXCEPT !.y = y1]
     ELSE [e EXCEPT
             !.items = Append(@, Item(eq, r, <<"EQ", e.idx, "">>, "", 0)),
             !.placed = IF w.equipment_clearance_mm > 0
                        THEN @ \o <<r, buf>> ELSE Append(@, r),
             !.idx = @ + 1,
             !.y = IF lr THEN found[1] + along + w.gap_y ELSE y1,
             !.start_y = IF lr THEN @ ELSE found[1] + along + w.gap_y]

\* one iteration of the loop over the equipment keys
PEWO_key(w, e, eq) ==
  LET w0 == FURNITURE[eq].w
      d0 == FURNITURE[eq].d
      along == Max(w0, d0)
      lr == w.wall \in {"L", "R"}
      max_pos == IF lr THEN w.room_d - along ELSE w.room_w - along
      pos0 == IF w.start_from = "end" THEN max_pos
              ELSE IF lr THEN e.y ELSE e.start_y
      step == IF w.start_from = "end" THEN -50 ELSE 50
  IN PEWO_after(w, e, eq, PEWO_sweep(w, e, eq, pos0, step, max_pos))

\* the loop over the keys ended at the first key that finds no slot
RECURSIVE PEWO_keys_strict_chain(_, _, _)
PEWO_keys_strict_chain(w, e, k) ==
  IF k > Len(w.equipment) THEN e
  ELSE IF Len(PEWO_key(w, e, w.equipment[k]).items) = Len(e.items) THEN e
  ELSE PEWO_keys_strict_chain(w, PEWO_key(w, e, w.equipment[k]), k + 1)

RECURSIVE PEWO_keys(_, _, _)
PEWO_keys(w, e, k) ==
  IF k > Len(w.equipment) THEN e
  ELSE PEWO_keys(w, PEWO_key(w, e, w.equipment[k]), k + 1)

\* {"items": items, "placed_rects": placed}
PEWO_Return(e) == [items |-> e.items, placed_rects |-> e.placed]

place_equipment_wall_only(w) ==
  PEWO_Return(PEWO_keys(w, [items |-> <<>>,
                            placed |-> list_copy(w.blocks).val,
                            y |-> w.start_y, start_y |-> w.start_y,
                            idx |-> 1], 1))

\* ---- place_equipment_along_wall
\* q is the record of the arguments: base_result, room_w, room_d,
\* equipment_list, blocks, equipment_x_override, desk_clear_radius_mm,
\* desk_side_clearance_mm, equipment_clearance_mm, door_side, door_offset.
\* p is the record of the locals of the loop over the walls.
RECURSIVE RectsOf(_)
RectsOf(items) ==
  IF items = <<>> THEN <<>>
  ELSE <<Head(items).rect>> \o RectsOf(Tail(items))

\* desk_rects_by_wall[wall]
RECURSIVE DeskRectsOnWall(_, _, _, _)
DeskRectsOnWall(desk_rects, wall, room_w, room_d) ==
  IF desk_rects = <<>> THEN <<>>
  ELSE LET sides == _rect_wall_sides(Head(desk_rects), room_w, room_d)
           rest == DeskRectsOnWall(Tail(desk_rects), wall, room_w, room_d)
       IN IF \E i \in 1..Len(sides) : sides[i] = wall
          THEN <<Head(desk_rects)>> \o rest ELSE rest

RECURSIVE Centers(_)
Centers(rects) ==
  IF rects = <<>> THEN <<>>
  ELSE <<_item_center(Head(rects))>> \o Centers(Tail(rects))

\* PEAW_walls with the door-side wall left in its place
PEAW_walls_door_in_place(q) ==
  IF q.equipment_x_override # None
  THEN (IF 2 * q.equipment_x_override[1] <= q.room_w THEN <<"L">>
        ELSE <<"R">>)
  ELSE <<"L", "R", "T", "B">>

\* the list of walls the loop goes through
PEAW_walls(q) ==
  LET all_walls == <<"L", "R", "T", "B">>
      moved == IF q.door_side \in {"L", "R", "T", "B"}
               THEN RemoveFirst(all_walls, q.door_side) \o <<q.door_side>>
               ELSE all_walls
  IN IF q.equipment_x_override # None
     THEN (IF 2 * q.equipment_x_override[1] <= q.room_w THEN <<"L">>
           ELSE <<"R">>)
     ELSE moved

PEAW_start_from(q, wall) ==
  IF wall = q.door_side
  THEN IF q.door_side \in {"L", "R"}
       THEN (IF q.door_offset # None
             THEN (IF 2 * q.door_offset[1] < q.room_d THEN "end" ELSE "start")
             ELSE "end")
       ELSE IF q.door_side \in {"T", "B"}
       THEN (IF q.door_offset # None
             THEN (IF 2 * q.door_offset[1] < q.room_w THEN "end" ELSE "start")
             ELSE "end")
       ELSE "start"
  ELSE "start"

\* base_items is a new list, out a new dict (obj as for list_copy)
dict_copy(d) == [obj |-> "new", val |-> d]

PEAW_Init(q) ==
  [wall_i |-> 1, remaining |-> q.equipment_list, equipment_items |-> <<>>,
   placed_rects |-> list_copy(q.blocks).val
                      \o RectsOf(list_copy(q.base_result.items).val)]

PEAW_Cond(q, p) ==
  /\ q.equipment_list # <<>>
  /\ p.wall_i <= Len(PEAW_walls(q))
  /\ p.remaining # <<>>

\* the arguments of the call of place_equipment_wall_only for one wall
PEAW_wall_args(q, p, wall) ==
  LET base_items == q.base_result.items
      desk_rects == RectsOfType(base_items, "desk")
      on_wall == DeskRectsOnWall(desk_rects, wall, q.room_w, q.room_d)
      side_by_side == on_wall # <<>>
  IN [room_w |-> q.room_w, room_d |-> q.room_d, equipment |-> p.remaining,
      blocks |-> p.placed_rects, wall |-> wall, start_y |-> 0,
      gap_y |-> q.equipment_clearance_mm,
      avoid_centers |-> IF side_by_side THEN None
                        ELSE <<Centers(desk_rects)>>,
      avoid_radius_mm |-> IF side_by_side THEN None
                          ELSE <<q.desk_clear_radius_mm>>,
      desk_rects_same_wall |-> IF side_by_side THEN <<on_wall>> ELSE None,
      desk_clearance_mm |-> q.desk_side_clearance_mm,
      equipment_clearance_mm |-> q.equipment_clearance_mm,
      start_from |-> PEAW_start_from(q, wall)]

\* the locals after the call for one wall returned res
PEAW_after(p, res) ==
  [wall_i |-> p.wall_i + 1,
   remaining |-> _remove_equipment_types(p.remaining, res.items),
   equipment_items |-> p.equipment_items \o res.items,
   placed_rects |-> res.placed_rects]

PEAW_Body(q, p) ==
  PEAW_after(p, place_equipment_wall_only(
                  PEAW_wall_args(q, p, PEAW_walls(q)[p.wall_i])))

PEAW_Return(q, p) ==
  IF q.equipment_list = <<>> THEN q.base_result
  ELSE [dict_copy(q.base_result).val EXCEPT
          !.items = list_copy(q.base_result.items).val \o p.equipment_items,
          !.equipment_target = <<Len(q.equipment_list)>>,
          !.equipment_placed = <<Len(p.equipment_items)>>]

RECURSIVE PEAW_Loop(_, _)
PEAW_Loop(q, p) == IF PEAW_Cond(q, p) THEN PEAW_Loop(q, PEAW_Body(q, p)) ELSE p

place_equipment_along_wall(q) == PEAW_Return(q, PEAW_Loop(q, PEAW_Init(q)))


\* ------------------------------------------------------------------------
\* utils.py: score_layout
\* ------------------------------------------------------------------------
calc_desk_area(ws_type) ==
  IF ws_type \in DOMAIN WsIdDims
  THEN WsIdDims[ws_type][1] * WsIdDims[ws_type][2]
  ELSE 0

\* result.get("equipment_placed", 0)
GetEquipmentPlaced(result) ==
  IF result.equipment_placed = None THEN 0 ELSE result.equipment_placed[1]

score_layout(result, priority) ==
  LET ok == IF result.ok THEN 1 ELSE 0
      seats == result.seats_placed
      equip == GetEquipmentPlaced(result)
      desk_area == calc_desk_area(result.ws_type)
  IN IF priority \in {"desk", "desk_1200"}
     THEN <<ok, seats, desk_area, equip>>
     ELSE <<ok, seats, equip, desk_area>>

\* Python's order on tuples of integers of one length
RECURSIVE TupleLess(_, _)
TupleLess(t, u) ==
  IF t = <<>> THEN FALSE
  ELSE IF Head(t) < Head(u) THEN TRUE
  ELSE IF Head(t) > Head(u) THEN FALSE
  ELSE TupleLess(Tail(t), Tail(u))

\* sorted(seq, key=..., reverse=True): stable, so elements with equal keys
\* keep their order.  keys is the sequence of the keys of seq.
RECURSIVE InsertDesc(_, _, _)
InsertDesc(sorted, keys, i) ==
  \* the indices in sorted are in descending key order; i goes after every
  \* index whose key is not less than the key of i
  IF sorted = <<>> THEN <<i>>
  ELSE IF TupleLess(keys[Head(sorted)], keys[i]) THEN <<i>> \o sorted
  ELSE <<Head(sorted)>> \o InsertDesc(Tail(sorted), keys, i)

RECURSIVE SortedDescIdx(_, _)
SortedDescIdx(keys, n) ==
  IF n = 0 THEN <<>>
  ELSE InsertDesc(SortedDescIdx(keys, n - 1), keys, n)

\* the last element of an ascending sort: among the elements with the
\* greatest key, the one that comes last
SortedLast(seq, keys) ==
  seq[CHOOSE i \in 1..Len(seq) :
        /\ \A j \in 1..Len(seq) : ~TupleLess(keys[i], keys[j])
        /\ \A j \in (i + 1)..Len(seq) : TupleLess(keys[j], keys[i])]

\* sorted(seq, key, reverse=True)[0]
SortedFirst(seq, keys) == seq[SortedDescIdx(keys, Len(seq))[1]]

\* ------------------------------------------------------------------------
\* app.py: solve_one_plan
\* g is the record of the arguments: room_w, room_d, seats_required,
\* ws_candidates, blocks, equipment, equipment_x_override, door_side,
\* door_offset, priority, door_tip.
\* ------------------------------------------------------------------------
\* the generator calls with the four wall patterns for a door on the top or
\* bottom wall
SOP_calls_four(g) ==
  IF g.door_side \in {"L", "R"}
  THEN << <<"double_wall_top_bottom",
            IF g.door_side = "L" THEN "R" ELSE "L", "">> >>
  ELSE << <<"double_wall", "L", "">>,
          <<"double_wall_top_bottom", "L", "">>,
          <<"single_wall", "L", "L">>,
          <<"single_wall", "L", "R">> >>

\* the generator calls made for one desk type, in order: each is
\* <<generator, start_from, side>> ("" where the call does not pass it and
\* "L" where the default of start_from applies)
SOP_calls(g) ==
  IF g.door_side \in {"L", "R"}
  THEN << <<"double_wall_top_bottom",
            IF g.door_side = "L" THEN "R" ELSE "L", "">> >>
  ELSE IF g.door_side \in {"T", "B"}
  THEN << <<"single_wall_tb",
            IF g.door_offset # None /\ 2 * g.door_offset[1] < g.room_w
            THEN "R" ELSE "L",
            IF g.door_side = "T" THEN "B" ELSE "T">> >>
  ELSE << <<"double_wall", "L", "">>,
          <<"double_wall_top_bottom", "L", "">>,
          <<"single_wall", "L", "L">>,
          <<"single_wall", "L", "R">> >>

\* the candidates generated for one desk type, before equipment
SOP_patterns(g, ws_type) ==
  [i \in 1..Len(SOP_calls(g)) |->
     RunGenerator(Args(SOP_calls(g)[i][1], g.room_w, g.room_d, ws_type,
                       g.seats_required, g.blocks, 0, SOP_calls(g)[i][2],
                       SOP_calls(g)[i][3], g.door_tip, 900, "", None, 0,
                       ""))]

\* the candidates cs after the equipment was attached
SOP_attach(g, cs) ==
  IF g.equipment # <<>>
  THEN [i \in 1..Len(cs) |->
          place_equipment_along_wall(
            [base_result |-> cs[i], room_w |-> g.room_w,
             room_d |-> g.room_d, equipment_list |-> g.equipment,
             blocks |-> g.blocks,
             equipment_x_override |-> g.equipment_x_override,
             desk_clear_radius_mm |-> 1225,
             desk_side_clearance_mm |-> 200,
             equipment_clearance_mm |-> 0,
             door_side |-> g.door_side, door_offset |-> g.door_offset])]
  ELSE cs

\* the candidates of one desk type after the equipment was attached
SOP_candidates(g, ws_type) == SOP_attach(g, SOP_patterns(g, ws_type))

\* the keys of the two sorts
SOP_scores(g, candidates) ==
  [i \in 1..Len(candidates) |-> score_layout(candidates[i], g.priority)]

SOP_seat_keys(candidates) ==
  [i \in 1..Len(candidates) |->
     << candidates[i].seats_placed, GetEquipmentPlaced(candidates[i]) >>]

\* the choice among the candidates of one desk type without the second
\* sort: the score order alone, in which a candidate without ok is ranked
\* by its first generated place
SOP_best_without_seat_sort(g, candidates) ==
  IF ~(\E i \in 1..Len(candidates) : candidates[i].ok)
  THEN candidates[Len(candidates)]
  ELSE SortedFirst(candidates, SOP_scores(g, candidates))

SOP_best_for_ws(g, candidates) ==
  IF ~(\E i \in 1..Len(candidates) : candidates[i].ok)
  THEN SortedFirst(candidates, SOP_seat_keys(candidates))
  ELSE SortedFirst(candidates, SOP_scores(g, candidates))

\* One iteration of the loop over ws_candidates.  v is the record of the
\* locals: i the index of the desk type, best (None before the first
\* assignment), stop (the break was taken).
SOP_Init(g) == [i |-> 1, best |-> None, stop |-> FALSE]

SOP_Cond(g, v) == ~v.stop /\ v.i <= Len(g.ws_candidates)

\* the two ifs with a break that does not look at the equipment placed
SOP_update_ok_only(g, v, best_for_ws) ==
  LET best1 == IF v.best = None
                  \/ TupleLess(score_layout(v.best[1], g.priority),
                               score_layout(best_for_ws, g.priority))
               THEN <<best_for_ws>> ELSE v.best
      break == best_for_ws.ok /\ g.priority = "equipment"
  IN [i |-> v.i + 1,
      best |-> IF break THEN <<best_for_ws>> ELSE best1,
      stop |-> break]

\* the locals after the two ifs that follow the choice of best_for_ws
SOP_update(g, v, best_for_ws) ==
  LET best1 == IF v.best = None
                  \/ TupleLess(score_layout(v.best[1], g.priority),
                               score_layout(best_for_ws, g.priority))
               THEN <<best_for_ws>> ELSE v.best
      break == /\ best_for_ws.ok /\ g.priority = "equipment"
               /\ \/ g.equipment = <<>>
                  \/ GetEquipmentPlaced(best_for_ws) >= Len(g.equipment)
  IN [i |-> v.i + 1,
      best |-> IF break THEN <<best_for_ws>> ELSE best1,
      stop |-> break]

SOP_Body(g, v) ==
  SOP_update(g, v,
             SOP_best_for_ws(g, SOP_candidates(g, g.ws_candidates[v.i])))

RECURSIVE SOP_Loop(_, _)
SOP_Loop(g, v) == IF SOP_Cond(g, v) THEN SOP_Loop(g, SOP_Body(g, v)) ELSE v

\* the value returned: None, or <<best>>
solve_one_plan(g) == SOP_Loop(g, SOP_Init(g)).best


\* ------------------------------------------------------------------------
\* scoring.py
\* A float score is a fixed-point number with three decimals: the integer
\* n stands for n / Unit, and a division keeps the integer part.  The
\* comparisons of a quotient with a threshold are made on the integers the
\* quotient comes from.  Coordinates halved in the source (a centre) are
\* kept doubled.
\* ------------------------------------------------------------------------
MAIN_AISLE_MIN == 1200
MAIN_AISLE_OPTIMAL == 1500
SUB_AISLE_MIN == 900
ONE_PERSON_MIN == 600
CHAIR_CLEARANCE_MIN == 800
CHAIR_CLEARANCE_OPTIMAL == 1100
DESK_ROW_SPACING_MIN == 900
DESK_ROW_SPACING_OPTIMAL == 1200
AREA_PER_PERSON_MIN == 4000000
AREA_PER_PERSON_OPTIMAL == 10000000
AREA_PER_PERSON_MAX == 15000000
WINDOW_PROXIMITY_OPTIMAL == 2000
WINDOW_PROXIMITY_MAX == 5000
TRAFFIC_FLOW_OPTIMAL == 3000
TRAFFIC_FLOW_MAX == 8000

\* the fixed-point 1.0
Unit == 1000

RECURSIVE Pow10(_)
Pow10(k) == IF k = 0 THEN 1 ELSE 10 * Pow10(k - 1)

\* the integer part of a * 10^k / b, for a >= 0 and b > 0, by long division
RECURSIVE LongDiv(_, _, _)
LongDiv(a, b, k) ==
  IF k = 0 THEN a \div b
  ELSE (a \div b) * Pow10(k) + LongDiv((a % b) * 10, b, k - 1)

\* the float a / b as a fixed-point number
Quotient(a, b) == IF a >= 0 THEN LongDiv(a, b, 3) ELSE 0 - LongDiv(0 - a, b, 3)

\* the product of two fixed-point numbers
Times(s, t) == (s * t) \div Unit

\* sum(seq) of a sequence of integers
RECURSIVE Sum(_)
Sum(seq) == IF seq = <<>> THEN 0 ELSE Head(seq) + Sum(Tail(seq))

\* [f(x) for x in seq if x of the type]
ItemsOfType(items, type) == SelectSeq(items, LAMBDA it : it.type = type)

\* (desks, chairs)
_get_desks_and_chairs(items) ==
  << ItemsOfType(items, "desk"), ItemsOfType(items, "chair") >>

\* the seat score without the cap at 1.0
_calc_seat_score_uncapped(result, room_w, room_d) ==
  LET seats == result.seats_placed
      total_area == room_w * room_d
      theoretical_max == Max(1, total_area \div AREA_PER_PERSON_OPTIMAL)
  IN IF seats = 0 THEN 0
     ELSE Quotient(seats, theoretical_max)

_calc_seat_score(result, room_w, room_d) ==
  LET seats == result.seats_placed
      total_area == room_w * room_d
      theoretical_max == Max(1, total_area \div AREA_PER_PERSON_OPTIMAL)
  IN IF seats = 0 THEN 0
     ELSE Min(Quotient(seats, theoretical_max), Unit)

\* the gap behind a chair: the distance to the wall its back is turned to
ChairGap(chair, room_w, room_d) ==
  LET rect == chair.rect
      back_side == IF chair.chair_back = "" THEN "B" ELSE chair.chair_back
  IN IF back_side = "T" THEN rect.y
     ELSE IF back_side = "B" THEN room_d - (rect.y + rect.d)
     ELSE IF back_side = "L" THEN rect.x
     ELSE room_w - (rect.x + rect.w)

\* the score of the main aisle
AisleScore(center_gap) ==
  IF center_gap >= MAIN_AISLE_OPTIMAL THEN Unit
  ELSE IF center_gap >= MAIN_AISLE_MIN
  THEN 700 + (300 * (center_gap - MAIN_AISLE_MIN))
               \div (MAIN_AISLE_OPTIMAL - MAIN_AISLE_MIN)
  ELSE IF center_gap >= SUB_AISLE_MIN
  THEN 400 + (300 * (center_gap - SUB_AISLE_MIN))
               \div (MAIN_AISLE_MIN - SUB_AISLE_MIN)
  ELSE IF center_gap >= ONE_PERSON_MIN
  THEN 200 + (200 * (center_gap - ONE_PERSON_MIN))
               \div (SUB_AISLE_MIN - ONE_PERSON_MIN)
  ELSE 0

\* the score of the chair clearance; total is sum(chair_gaps) and n is
\* len(chair_gaps), so that avg_chair_gap is total / n
ChairClearanceScore(total, n) ==
  IF total >= CHAIR_CLEARANCE_OPTIMAL * n THEN Unit
  ELSE IF total >= CHAIR_CLEARANCE_MIN * n
  THEN 500 + (500 * (total - CHAIR_CLEARANCE_MIN * n))
               \div ((CHAIR_CLEARANCE_OPTIMAL - CHAIR_CLEARANCE_MIN) * n)
  ELSE Max(0, (500 * total) \div (CHAIR_CLEARANCE_MIN * n))

_calc_passage_score(result, room_w, room_d) ==
  LET dc == _get_desks_and_chairs(result.items)
      desks == dc[1]
      chairs == dc[2]
      left_items == SelectSeq(desks, LAMBDA d : 2 * d.rect.x < room_w)
      right_items == SelectSeq(desks, LAMBDA d : 2 * d.rect.x >= room_w)
      left_edge ==
        CHOOSE e \in {x2(left_items[i].rect) : i \in 1..Len(left_items)} :
          \A i \in 1..Len(left_items) : x2(left_items[i].rect) <= e
      right_edge ==
        CHOOSE e \in {right_items[i].rect.x : i \in 1..Len(right_items)} :
          \A i \in 1..Len(right_items) : right_items[i].rect.x >= e
      center_gap == IF left_items # <<>> /\ right_items # <<>>
                    THEN right_edge - left_edge ELSE room_w
      chair_gaps == [i \in 1..Len(chairs) |->
                       ChairGap(chairs[i], room_w, room_d)]
      scores == IF chair_gaps # <<>>
                THEN << AisleScore(center_gap),
                        ChairClearanceScore(Sum(chair_gaps),
                                            Len(chair_gaps)) >>
                ELSE << AisleScore(center_gap) >>
  IN IF desks = <<>> THEN Unit
     ELSE Sum(scores) \div Len(scores)

\* the doubled centre of a rect
Center2(rect) == << 2 * rect.x + rect.w, 2 * rect.y + rect.d >>

\* the doubled distances of a desk to the window walls
WindowDistances2(rect, room_w, room_d, window_sides) ==
  (IF "T" \in window_sides THEN {Center2(rect)[2]} ELSE {})
    \cup (IF "B" \in window_sides THEN {2 * room_d - Center2(rect)[2]}
          ELSE {})
    \cup (IF "L" \in window_sides THEN {Center2(rect)[1]} ELSE {})
    \cup (IF "R" \in window_sides THEN {2 * room_w - Center2(rect)[1]}
          ELSE {})

\* base_score of a desk whose doubled distance to the nearest window is d2
LightScore(d2) ==
  IF d2 <= 2 * WINDOW_PROXIMITY_OPTIMAL THEN Unit
  ELSE IF d2 <= 2 * WINDOW_PROXIMITY_MAX
  THEN 300 + (700 * (2 * WINDOW_PROXIMITY_MAX - d2))
               \div (2 * (WINDOW_PROXIMITY_MAX - WINDOW_PROXIMITY_OPTIMAL))
  ELSE Max(0, (300 * (4 * WINDOW_PROXIMITY_MAX - d2))
                \div (2 * WINDOW_PROXIMITY_MAX))

\* window_sides is None or <<the set of the sides>>
_calc_natural_light_score(result, room_w, room_d, window_sides) ==
  LET desks == _get_desks_and_chairs(result.items)[1]
      sides == IF window_sides = None THEN {"T", "R"} ELSE window_sides[1]
      score(rect) ==
        LET distances == WindowDistances2(rect, room_w, room_d, sides)
        IN IF distances = {} THEN 500
           ELSE LightScore(CHOOSE m \in distances :
                             \A o \in distances : m <= o)
  IN IF desks = <<>> THEN 500
     ELSE Sum([i \in 1..Len(desks) |-> score(desks[i].rect)])
            \div Len(desks)

\* the integer part of the square root of n, searched between lo and hi
RECURSIVE IsqrtIn(_, _, _)
IsqrtIn(n, lo, hi) ==
  IF lo >= hi THEN lo
  ELSE LET mid == (lo + hi + 1) \div 2
       IN IF mid * mid <= n THEN IsqrtIn(n, mid, hi)
          ELSE IsqrtIn(n, lo, mid - 1)

\* math.sqrt, to the integer part
Isqrt(n) == IsqrtIn(n, 0, 46340)

\* the door points used: those given, else the centres of the door_arc
\* items, else the middle of the bottom wall; as doubled coordinates
DoorPoints2(items, room_w, room_d, door_positions) ==
  LET door_items == ItemsOfType(items, "door_arc")
  IN IF door_positions # None /\ door_positions[1] # <<>>
     THEN [i \in 1..Len(door_positions[1]) |->
             << 2 * door_positions[1][i].x, 2 * door_positions[1][i].y >>]
     ELSE IF door_items # <<>>
     THEN [i \in 1..Len(door_items) |-> Center2(door_items[i].rect)]
     ELSE << << room_w, 2 * room_d >> >>

\* the square of the doubled distance between two doubled points
Dist2Squared(a, b) ==
  (a[1] - b[1]) * (a[1] - b[1]) + (a[2] - b[2]) * (a[2] - b[2])

\* score of a desk; sq is the square of its doubled distance to the
\* nearest door
FlowScore(sq) ==
  IF sq <= (2 * TRAFFIC_FLOW_OPTIMAL) * (2 * TRAFFIC_FLOW_OPTIMAL) THEN Unit
  ELSE IF sq <= (2 * TRAFFIC_FLOW_MAX) * (2 * TRAFFIC_FLOW_MAX)
  THEN 300 + (700 * (2 * TRAFFIC_FLOW_MAX - Isqrt(sq)))
               \div (2 * (TRAFFIC_FLOW_MAX - TRAFFIC_FLOW_OPTIMAL))
  ELSE Max(0, (300 * (4 * TRAFFIC_FLOW_MAX - Isqrt(sq)))
                \div (2 * TRAFFIC_FLOW_MAX))

\* door_positions is None or <<the list of the points [x, y]>>
_calc_traffic_flow_score(result, room_w, room_d, door_positions) ==
  LET desks == _get_desks_and_chairs(result.items)[1]
      doors == DoorPoints2(result.items, room_w, room_d, door_positions)
      score(rect) ==
        LET sqs == {Dist2Squared(Center2(rect), doors[i]) :
                      i \in 1..Len(doors)}
        IN FlowScore(CHOOSE m \in sqs : \A o \in sqs : m <= o)
  IN IF desks = <<>> THEN 500
     ELSE Sum([i \in 1..Len(desks) |-> score(desks[i].rect)])
            \div Len(desks)

\* abs
Abs(n) == IF n >= 0 THEN n ELSE 0 - n

\* "face" in pattern.lower() or "mixed" in pattern.lower(), for the
\* pattern names of the generators
PatternIsFaceToFace(pattern) == pattern \in {"face_to_face_center", "mixed"}

\* the test of a facing pair: aligned on one axis, 800 to 3000 apart on
\* the other
FacingPair(rect1, rect2) ==
  LET x_diff == Abs(rect1.x - rect2.x)
      y_diff == Abs(rect1.y - rect2.y)
  IN \/ x_diff < 200 /\ 800 < y_diff /\ y_diff < 3000
     \/ y_diff < 200 /\ 800 < x_diff /\ x_diff < 3000

\* face_pairs counted from desk i on, with the set of the desks used
RECURSIVE FacePairs(_, _, _)
FacePairs(desks, i, used) ==
  IF i > Len(desks) THEN 0
  ELSE IF i \in used THEN FacePairs(desks, i + 1, used)
  ELSE LET js == {j \in (i + 1)..Len(desks) :
                    j \notin used /\ FacingPair(desks[i].rect, desks[j].rect)}
       IN IF js = {} THEN FacePairs(desks, i + 1, used)
          ELSE 1 + FacePairs(desks, i + 1,
                             used \cup {i, CHOOSE j \in js :
                                             \A o \in js : j <= o})

_calc_face_to_face_bonus(result) ==
  LET desks == _get_desks_and_chairs(result.items)[1]
      max_pairs == Len(desks) \div 2
  IN IF PatternIsFaceToFace(result.pattern) THEN Unit
     ELSE IF Len(desks) < 2 THEN 0
     ELSE Min(Quotient(FacePairs(desks, 1, {}), max_pairs), Unit)

\* the distance recorded for two desks: <<>> when they are not adjacent
\* (apart on both axes) or touch or overlap
DeskDistance(rect1, rect2) ==
  LET dx == IF x2(rect1) <= rect2.x THEN rect2.x - x2(rect1)
            ELSE IF x2(rect2) <= rect1.x THEN rect1.x - x2(rect2)
            ELSE 0
      dy == IF y2(rect1) <= rect2.y THEN rect2.y - y2(rect1)
            ELSE IF y2(rect2) <= rect1.y THEN rect1.y - y2(rect2)
            ELSE 0
  IN IF (dx = 0 \/ dy = 0) /\ Max(dx, dy) > 0 THEN << Max(dx, dy) >>
     ELSE <<>>

\* the score of the least distance
SpacingScore(min_distance) ==
  IF min_distance >= DESK_ROW_SPACING_OPTIMAL THEN Unit
  ELSE IF min_distance >= DESK_ROW_SPACING_MIN
  THEN 600 + (400 * (min_distance - DESK_ROW_SPACING_MIN))
               \div (DESK_ROW_SPACING_OPTIMAL - DESK_ROW_SPACING_MIN)
  ELSE IF min_distance >= ONE_PERSON_MIN
  THEN 300 + (300 * (min_distance - ONE_PERSON_MIN))
               \div (DESK_ROW_SPACING_MIN - ONE_PERSON_MIN)
  ELSE Max(0, (300 * min_distance) \div ONE_PERSON_MIN)

_calc_desk_spacing_score(result, room_w, room_d) ==
  LET desks == _get_desks_and_chairs(result.items)[1]
      min_distances ==
        UNION { { DeskDistance(desks[i].rect, desks[j].rect)[1] :
                    j \in {k \in (i + 1)..Len(desks) :
                             DeskDistance(desks[i].rect, desks[k].rect)
                               # <<>>} } :
                i \in 1..Len(desks) }
  IN IF Len(desks) < 2 THEN Unit
     ELSE IF min_distances = {} THEN Unit
     ELSE SpacingScore(CHOOSE m \in min_distances :
                         \A o \in min_distances : m <= o)

\* area_per_person is total_area / seats
_calc_area_per_person_score(result, room_w, room_d) ==
  LET seats == result.seats_placed
      total_area == room_w * room_d
  IN IF seats = 0 THEN 0
     ELSE IF /\ AREA_PER_PERSON_OPTIMAL * seats <= total_area
             /\ total_area <= AREA_PER_PERSON_MAX * seats
     THEN Unit
     ELSE IF total_area < AREA_PER_PERSON_MIN * seats
     THEN Max(0, Times(Quotient(total_area, AREA_PER_PERSON_MIN * seats),
                       300))
     ELSE IF total_area < AREA_PER_PERSON_OPTIMAL * seats
     THEN 300 + Times(700,
                      Quotient(total_area - AREA_PER_PERSON_MIN * seats,
                               (AREA_PER_PERSON_OPTIMAL
                                  - AREA_PER_PERSON_MIN) * seats))
     ELSE Max(500,
              Unit - Times(Quotient(total_area - AREA_PER_PERSON_MAX * seats,
                                    AREA_PER_PERSON_MAX * seats), 500))

\* the greatest common divisor
RECURSIVE GCD(_, _)
GCD(a, b) == IF b = 0 THEN a ELSE GCD(b, a % b)

\* the fraction num / den in lowest terms, as <<num, den>>
Fraction(num, den) == << num \div GCD(num, den), den \div GCD(num, den) >>

\* a < b for two fractions with positive denominators
FracLess(a, b) == a[1] * b[2] < b[1] * a[2]

\* _calc_area_per_person_score_exact with the recommended area excluded
\* from the first branch
_calc_area_per_person_score_open(result, room_w, room_d) ==
  LET seats == result.seats_placed
      total_area == room_w * room_d
      lo == AREA_PER_PERSON_MIN * seats
      opt == AREA_PER_PERSON_OPTIMAL * seats
      hi == AREA_PER_PERSON_MAX * seats
      over == Fraction(2 * hi - (total_area - hi), 2 * hi)
  IN IF seats = 0 THEN <<0, 1>>
     ELSE IF opt < total_area /\ total_area <= hi THEN <<1, 1>>
     ELSE IF total_area < lo THEN Fraction(3 * total_area, 10 * lo)
     ELSE IF total_area < opt
     THEN Fraction(3 * (opt - lo) + 7 * (total_area - lo), 10 * (opt - lo))
     ELSE IF FracLess(over, <<1, 2>>) THEN <<1, 2>> ELSE over

\* _calc_area_per_person_score as a fraction, nothing cut off:
\* area_per_person is total_area / seats, so that
\*   area_per_person / MIN * 0.3 = 3 total_area / (10 MIN seats),
\*   0.3 + 0.7 (area_per_person - MIN) / (OPTIMAL - MIN)
\*     = (3 (OPTIMAL - MIN) seats + 7 (total_area - MIN seats))
\*         / (10 (OPTIMAL - MIN) seats),
\*   1.0 - excess / MAX * 0.5
\*     = (2 MAX seats - (total_area - MAX seats)) / (2 MAX seats)
_calc_area_per_person_score_exact(result, room_w, room_d) ==
  LET seats == result.seats_placed
      total_area == room_w * room_d
      lo == AREA_PER_PERSON_MIN * seats
      opt == AREA_PER_PERSON_OPTIMAL * seats
      hi == AREA_PER_PERSON_MAX * seats
      over == Fraction(2 * hi - (total_area - hi), 2 * hi)
  IN IF seats = 0 THEN <<0, 1>>
     ELSE IF opt <= total_area /\ total_area <= hi THEN <<1, 1>>
     ELSE IF total_area < lo THEN Fraction(3 * total_area, 10 * lo)
     ELSE IF total_area < opt
     THEN Fraction(3 * (opt - lo) + 7 * (total_area - lo), 10 * (opt - lo))
     ELSE IF FracLess(over, <<1, 2>>) THEN <<1, 2>> ELSE over

\* the item types counted as furniture
FurnitureTypes ==
  {"desk", "chair", "storage_M", "storage_S", "storage_D", "mfp"}

_calc_space_efficiency_score(result, room_w, room_d) ==
  LET items == result.items
      furniture_area ==
        Sum([i \in 1..Len(items) |->
               IF items[i].type \in FurnitureTypes
               THEN items[i].rect.w * items[i].rect.d ELSE 0])
      total_area == room_w * room_d
      \* usage_ratio with six decimals
      usage_ratio == LongDiv(furniture_area, total_area, 6)
  IN IF items = <<>> THEN 0
     ELSE IF total_area = 0 THEN 0
     ELSE IF 4 * furniture_area >= total_area
             /\ 20 * furniture_area <= 9 * total_area
     THEN Unit
     ELSE IF 20 * furniture_area < 3 * total_area
     THEN (usage_ratio * 500) \div 150000
     ELSE IF 4 * furniture_area < total_area
     THEN 500 + ((usage_ratio - 150000) * 500) \div 100000
     ELSE IF 20 * furniture_area <= 11 * total_area
     THEN Unit - ((usage_ratio - 450000) * 300) \div 100000
     ELSE Max(300, 700 - ((usage_ratio - 550000) * 400) \div 200000)

DEFAULT_WEIGHTS ==
  [seat_count |-> 1000, passage_width |-> 800, natural_light |-> 500,
   traffic_flow |-> 600, face_to_face_bonus |-> 300,
   space_efficiency |-> 400, desk_spacing |-> 700, area_per_person |-> 600]

\* dict.update
DictUpdate(d, u) ==
  [k \in DOMAIN d \cup DOMAIN u |-> IF k \in DOMAIN u THEN u[k] ELSE d[k]]

\* dict.get(key, default)
DictGet(d, key, default) == IF key \in DOMAIN d THEN d[key] ELSE default

\* config is None when there is no config.yaml, else <<the "scoring"
\* section of the file>>, a record with the fields weights and presets
load_scoring_weights(config, preset) ==
  IF config = None THEN DEFAULT_WEIGHTS
  ELSE IF preset # None /\ preset[1] \in DOMAIN config[1].presets
  THEN DictUpdate(DEFAULT_WEIGHTS, config[1].presets[preset[1]])
  ELSE DictUpdate(DEFAULT_WEIGHTS, config[1].weights)

ScoreBreakdown(seat_count, passage_width, natural_light, traffic_flow, face_to_face_bonus, space_efficiency, desk_spacing, area_per_person, total) ==
  [seat_count |-> seat_count, passage_width |-> passage_width,
   natural_light |-> natural_light, traffic_flow |-> traffic_flow,
   face_to_face_bonus |-> face_to_face_bonus,
   space_efficiency |-> space_efficiency, desk_spacing |-> desk_spacing,
   area_per_person |-> area_per_person, total |-> total]

\* the eight scores before the weights
SubScores(result, room_w, room_d, door_positions, window_sides) ==
  [seat_count |-> _calc_seat_score(result, room_w, room_d),
   passage_width |-> _calc_passage_score(result, room_w, room_d),
   natural_light |->
     _calc_natural_light_score(result, room_w, room_d, window_sides),
   traffic_flow |->
     _calc_traffic_flow_score(result, room_w, room_d, door_positions),
   face_to_face_bonus |-> _calc_face_to_face_bonus(result),
   space_efficiency |-> _calc_space_efficiency_score(result, room_w, room_d),
   desk_spacing |-> _calc_desk_spacing_score(result, room_w, room_d),
   area_per_person |-> _calc_area_per_person_score(result, room_w, room_d)]

\* the sum of the weights a breakdown uses
WeightSum(weights) ==
  DictGet(weights, "seat_count", 1000) + DictGet(weights, "passage_width", 800)
    + DictGet(weights, "natural_light", 500)
    + DictGet(weights, "traffic_flow", 600)
    + DictGet(weights, "face_to_face_bonus", 300)
    + DictGet(weights, "space_efficiency", 400)
    + DictGet(weights, "desk_spacing", 700)
    + DictGet(weights, "area_per_person", 600)

\* the breakdown with a total that is the weighted average
WeightedBreakdownAveraged(sub, weights) ==
  LET f(key, default) == Times(sub[key], DictGet(weights, key, default))
      sum == f("seat_count", 1000) + f("passage_width", 800)
               + f("natural_light", 500) + f("traffic_flow", 600)
               + f("face_to_face_bonus", 300) + f("space_efficiency", 400)
               + f("desk_spacing", 700) + f("area_per_person", 600)
  IN ScoreBreakdown(f("seat_count", 1000), f("passage_width", 800),
                    f("natural_light", 500), f("traffic_flow", 600),
                    f("face_to_face_bonus", 300), f("space_efficiency", 400),
                    f("desk_spacing", 700), f("area_per_person", 600),
                    IF WeightSum(weights) = 0 THEN 0
                    ELSE Quotient(sum, WeightSum(weights)))

\* the breakdown of the scores sub under the weights, with its total
WeightedBreakdown(sub, weights) ==
  LET seat_count == Times(sub.seat_count, DictGet(weights, "seat_count", 1000))
      passage_width ==
        Times(sub.passage_width, DictGet(weights, "passage_width", 800))
      natural_light ==
        Times(sub.natural_light, DictGet(weights, "natural_light", 500))
      traffic_flow ==
        Times(sub.traffic_flow, DictGet(weights, "traffic_flow", 600))
      face_to_face_bonus ==
        Times(sub.face_to_face_bonus,
              DictGet(weights, "face_to_face_bonus", 300))
      space_efficiency ==
        Times(sub.space_efficiency, DictGet(weights, "space_efficiency", 400))
      desk_spacing ==
        Times(sub.desk_spacing, DictGet(weights, "desk_spacing", 700))
      area_per_person ==
        Times(sub.area_per_person, DictGet(weights, "area_per_person", 600))
  IN ScoreBreakdown(seat_count, passage_width, natural_light, traffic_flow,
                    face_to_face_bonus, space_efficiency, desk_spacing,
                    area_per_person,
                    seat_count + passage_width + natural_light
                      + traffic_flow + face_to_face_bonus
                      + space_efficiency + desk_spacing + area_per_person)

\* the score computed without the test of ok
calculate_layout_score_unchecked(result, room_w, room_d, weights, config, preset, door_positions, window_sides) ==
  LET breakdown ==
        WeightedBreakdown(
          SubScores(result, room_w, room_d, door_positions, window_sides),
          IF weights = None THEN load_scoring_weights(config, preset)
          ELSE weights[1])
  IN << breakdown.total, breakdown >>

\* (total, breakdown); weights is None or <<the weights>>
calculate_layout_score(result, room_w, room_d, weights, config, preset, door_positions, window_sides) ==
  IF ~result.ok
  THEN << 0, ScoreBreakdown(0, 0, 0, 0, 0, 0, 0, 0, 0) >>
  ELSE LET breakdown ==
             WeightedBreakdown(
               SubScores(result, room_w, room_d, door_positions,
                         window_sides),
               IF weights = None THEN load_scoring_weights(config, preset)
               ELSE weights[1])
       IN << breakdown.total, breakdown >>

\* scored before the sort: (index from 0, score, breakdown) for every result
CL_scored(results, room_w, room_d, config, preset, door_positions, window_sides) ==
  [i \in 1..Len(results) |->
     << i - 1 >> \o calculate_layout_score(results[i], room_w, room_d, None,
                                           config, preset, door_positions,
                                           window_sides)]

\* the sort with equal scores in the reverse of their input order
CL_sort_ties_reversed(scored) ==
  LET order == SortedDescIdx([i \in 1..Len(scored) |-> << scored[i][2], i >>],
                             Len(scored))
  IN [k \in 1..Len(scored) |-> scored[order[k]]]

\* scored.sort(key=lambda x: x[1], reverse=True)
CL_sort(scored) ==
  LET order == SortedDescIdx([i \in 1..Len(scored) |-> << scored[i][2] >>],
                             Len(scored))
  IN [k \in 1..Len(scored) |-> scored[order[k]]]

compare_layouts(results, room_w, room_d, config, preset, door_positions, window_sides) ==
  CL_sort(CL_scored(results, room_w, room_d, config, preset, door_positions,
                    window_sides))

\* (results[best_idx], best_score, best_breakdown) of a ranking
GBL_first(results, ranking) ==
  << << results[ranking[1][1] + 1] >>, ranking[1][2], ranking[1][3] >>

\* (best result or None, score, breakdown)
get_best_layout(results, room_w, room_d, config, preset, door_positions, window_sides) ==
  IF results = <<>>
  THEN << None, 0, ScoreBreakdown(0, 0, 0, 0, 0, 0, 0, 0, 0) >>
  ELSE GBL_first(results,
                 compare_layouts(results, room_w, room_d, config, preset,
                                 door_positions, window_sides))

\* ------------------------------------------------------------------------
\* The state machine
\* ------------------------------------------------------------------------
VARIABLES
  env,          \* the room, door and seat count of this run
  blocks,       \* the caller's blocks list (the object passed to the calls)
  pc,           \* position: "idle", "sweep", "returned", "eq", "done",
                \*           "solve", "solved", "pewo", "pewo_returned", ...
  args,         \* arguments of the generator call in progress
  loc,          \* locals of the generator call in progress
  result,       \* the dict the generator returned
  q,            \* arguments of the place_equipment_along_wall call
  p,            \* locals of the place_equipment_along_wall call
  eq_walls,     \* for every element of p.equipment_items, the wall it is on
  base_result,  \* the caller's dict passed as base_result
  out,          \* the dict place_equipment_along_wall returned
  g,            \* arguments of the solve_one_plan call
  v,            \* locals of the solve_one_plan call
  generated,    \* the candidates lists solve_one_plan built, one per
                \* desk type tried
  results,      \* the candidates given to the scoring functions
  scoring,      \* the other arguments of the scoring calls
  scored,       \* for every candidate scored so far, its eight scores and
                \* what calculate_layout_score returned
  ranking,      \* the list compare_layouts returned
  best_layout,  \* the triple get_best_layout returned
  calls,        \* the calls made one after the other, each with its
                \* result: the generator calls with a growing
                \* seats_required, or the place_equipment_wall_only calls
                \* of one place_equipment_along_wall call
  sweep         \* the place_equipment_wall_only call in progress: its
                \* arguments, its locals and the position of its while loop

vars == << env, blocks, pc, args, loc, result, q, p, eq_walls, base_result,
           out, g, v, generated, results, scoring, scored, ranking,
           best_layout, calls, sweep >>

\* the variables of the scoring calls, of the repeated generator calls and
\* of the place_equipment_wall_only call
score_vars ==
  << results, scoring, scored, ranking, best_layout, calls, sweep >>

\* ---- bounds and input sets
MaxSeats == 4

\* rooms as (room_w, room_d), after the +10 mm padding of the callers
Rooms == { <<2500, 4010>>, <<4510, 3010>>, <<5010, 4010>>, <<6010, 4510>> }

WsTypes == {"ws_1200x700", "ws_1200x600", "ws_1000x600"}

\* "" is a call without a door
DoorSides == {"L", "R", "T", "B", ""}

DoorOffsets == {None, <<300>>}

\* extra blocks (pillars) appended to the door block; one of them is the
\* pillar of test_pillar_avoidance
Pillars == { <<>>, <<Rect(4000, 0, 600, 600)>>, <<Rect(1500, 1200, 300, 300)>> }

EquipmentLists == { <<>>, <<"mfp">>, <<"storage_M", "storage_M", "mfp">> }

EquipmentClearances == {0, 100}

\* the environment build_blocks gives for a door, plus the pillar
Env(room, ws_type, seats_required, door_side, door_offset, pillar) ==
  LET bb == build_blocks(room[1], room[2], 850, 900, door_side, door_offset)
  IN [room_w |-> room[1], room_d |-> room[2], ws_type |-> ws_type,
      seats_required |-> seats_required,
      door_side |-> door_side,
      door_offset |-> IF door_side = "" THEN None ELSE door_offset,
      blocks |-> (IF door_side = "" THEN <<>> ELSE bb[1]) \o pillar,
      door_rect |-> IF door_side = "" THEN None ELSE <<bb[2]>>,
      door_tip |-> IF door_side = "" THEN None ELSE <<bb[4]>>]

\* the pillars that lie in the room
PillarsIn(room) ==
  {pl \in Pillars : \A i \in 1..Len(pl) : inside_room(pl[i], room[1], room[2])}

Envs ==
  UNION { { Env(room, ws_type, seats_required, door_side, door_offset, pillar) :
              ws_type \in WsTypes, seats_required \in 1..MaxSeats,
              door_side \in DoorSides, door_offset \in DoorOffsets,
              pillar \in PillarsIn(room) } : room \in Rooms }

Init ==
  /\ env \in Envs
  /\ blocks = env.blocks
  /\ pc = "idle"
  /\ args = <<>> /\ loc = <<>> /\ result = <<>>
  /\ q = <<>> /\ p = <<>> /\ eq_walls = <<>>
  /\ base_result = <<>> /\ out = <<>>
  /\ g = <<>> /\ v = <<>> /\ generated = <<>>
  /\ results = <<>> /\ scoring = <<>> /\ scored = <<>>
  /\ ranking = <<>> /\ best_layout = <<>> /\ calls = <<>>
  /\ sweep = <<>>

\* ---- a generator call
Call(gen, start_from, side, wall_seats, wall_side) ==
  /\ pc = "idle"
  /\ args' = Args(gen, env.room_w, env.room_d, env.ws_type,
                  env.seats_required, blocks, 0, start_from, side,
                  env.door_tip, 900, env.door_side, env.door_rect,
                  wall_seats, wall_side)
  /\ loc' = GenInit(args')
  /\ pc' = "sweep"
  /\ UNCHANGED << env, blocks, result, q, p, eq_walls, base_result, out, g,
                  v, generated,
                  score_vars >>

Call_double_wall == Call("double_wall", "L", "", 0, "")

Call_double_wall_top_bottom ==
  \E start_from \in {"L", "R"} :
    Call("double_wall_top_bottom", start_from, "", 0, "")

Call_single_wall ==
  \E side \in {"L", "R"} : Call("single_wall", "L", side, 0, "")

Call_single_wall_tb ==
  \E side \in {"T", "B"}, start_from \in {"L", "R"} :
    Call("single_wall_tb", start_from, side, 0, "")

Call_face_to_face_center == Call("face_to_face_center", "L", "", 0, "")

Call_mixed ==
  \E wall_side \in {"L", "R", "T", "B"} : Call("mixed", "L", "", 2, wall_side)

\* one iteration of the generator's loop; an append to placed reaches the
\* caller's list when placed is that very object
Step ==
  /\ pc = "sweep"
  /\ GenCond(args, loc)
  /\ loc' = GenBody(args, loc)
  /\ blocks' = IF loc'.placed_obj = "arg" THEN loc'.placed ELSE blocks
  /\ UNCHANGED << env, pc, args, result, q, p, eq_walls, base_result, out,
                  g, v, generated,
                  score_vars >>

\* the loop has ended: the code after it, and the return
Return ==
  /\ pc = "sweep"
  /\ ~GenCond(args, loc)
  /\ result' = GenReturn(args, loc)
  /\ pc' = "returned"
  /\ UNCHANGED << env, blocks, args, loc, q, p, eq_walls, base_result, out,
                  g, v, generated,
                  score_vars >>

\* ---- a place_equipment_along_wall call on the returned candidate
EqCall ==
  /\ pc = "returned"
  /\ \E equipment_list \in EquipmentLists,
        equipment_clearance_mm \in EquipmentClearances :
       q' = [base_result |-> result, room_w |-> env.room_w,
             room_d |-> env.room_d, equipment_list |-> equipment_list,
             blocks |-> blocks, equipment_x_override |-> None,
             desk_clear_radius_mm |-> 1225, desk_side_clearance_mm |-> 200,
             equipment_clearance_mm |-> equipment_clearance_mm,
             door_side |-> env.door_side, door_offset |-> env.door_offset]
  /\ p' = PEAW_Init(q')
  /\ eq_walls' = <<>>
  /\ base_result' = result
  /\ pc' = "eq"
  /\ UNCHANGED << env, blocks, args, loc, result, out, g, v, generated,
                  score_vars >>

\* one iteration of the loop over the walls
EqWall ==
  /\ pc = "eq"
  /\ PEAW_Cond(q, p)
  /\ p' = PEAW_Body(q, p)
  /\ eq_walls' = eq_walls \o
       [i \in 1..(Len(p'.equipment_items) - Len(p.equipment_items)) |->
          PEAW_walls(q)[p.wall_i]]
  /\ UNCHANGED << env, blocks, pc, args, loc, result, q, base_result, out,
                  g, v, generated,
                  score_vars >>

\* the return; the assignments to out reach the caller's dict when out is
\* that very object
EqReturn ==
  /\ pc = "eq"
  /\ ~PEAW_Cond(q, p)
  /\ out' = PEAW_Return(q, p)
  /\ base_result' = IF q.equipment_list # <<>>
                       /\ dict_copy(q.base_result).obj = "arg"
                    THEN out' ELSE base_result
  /\ pc' = "done"
  /\ UNCHANGED << env, blocks, args, loc, result, q, p, eq_walls, g, v,
                  generated,
                  score_vars >>

Next ==
  \/ Call_double_wall
  \/ Call_double_wall_top_bottom
  \/ Call_single_wall
  \/ Call_single_wall_tb
  \/ Call_face_to_face_center
  \/ Call_mixed
  \/ Step
  \/ Return
  \/ EqCall
  \/ EqWall
  \/ EqReturn

Spec == Init /\ [][Next]_vars


\* ------------------------------------------------------------------------
\* The state machine of solve_one_plan
\* ------------------------------------------------------------------------
\* (wall_candidates, face_candidates)
get_ws_candidates(priority) ==
  IF priority = "desk_1200"
  THEN << <<"ws_1200x600", "ws_1200x700">>,
          <<"ws_1200x600", "ws_1200x700">> >>
  ELSE << <<"ws_1200x600", "ws_1000x600", "ws_1200x700">>,
          <<"ws_1000x600", "ws_1200x600", "ws_1200x700">> >>

Priorities == {"equipment", "desk", "desk_1200"}

\* the rooms of the solve_one_plan calls: those of the generator calls and
\* two too small to hold the seats and all the equipment
SolveRooms == Rooms \cup { <<2010, 1510>>, <<1510, 2510>> }

SolveEnvs ==
  UNION { { Env(room, "", seats_required, door_side, door_offset, pillar) :
              seats_required \in 1..MaxSeats,
              door_side \in DoorSides, door_offset \in DoorOffsets,
              pillar \in PillarsIn(room) } : room \in SolveRooms }

\* the call the callers make: the blocks and the door tip of build_blocks,
\* the wall candidates of the priority
SolveInit ==
  /\ env \in SolveEnvs
  /\ blocks = env.blocks
  /\ \E equipment \in EquipmentLists, priority \in Priorities :
       g = [room_w |-> env.room_w, room_d |-> env.room_d,
            seats_required |-> env.seats_required,
            ws_candidates |-> get_ws_candidates(priority)[1],
            blocks |-> blocks, equipment |-> equipment,
            equipment_x_override |-> None, door_side |-> env.door_side,
            door_offset |-> env.door_offset, priority |-> priority,
            door_tip |-> env.door_tip]
  /\ v = SOP_Init(g)
  /\ generated = <<>>
  /\ pc = "solve"
  /\ args = <<>> /\ loc = <<>> /\ result = <<>>
  /\ q = <<>> /\ p = <<>> /\ eq_walls = <<>>
  /\ base_result = <<>> /\ out = <<>>
  /\ results = <<>> /\ scoring = <<>> /\ scored = <<>>
  /\ ranking = <<>> /\ best_layout = <<>> /\ calls = <<>>
  /\ sweep = <<>>

\* one iteration of the loop over ws_candidates
SolveWs ==
  /\ pc = "solve"
  /\ SOP_Cond(g, v)
  /\ v' = SOP_Body(g, v)
  /\ generated' = Append(generated, SOP_candidates(g, g.ws_candidates[v.i]))
  /\ UNCHANGED << env, blocks, pc, args, loc, result, q, p, eq_walls,
                  base_result, out, g,
                  score_vars >>

\* return best
SolveReturn ==
  /\ pc = "solve"
  /\ ~SOP_Cond(g, v)
  /\ out' = v.best
  /\ pc' = "solved"
  /\ UNCHANGED << env, blocks, args, loc, result, q, p, eq_walls,
                  base_result, g, v, generated,
                  score_vars >>

SolveNext == SolveWs \/ SolveReturn

SolveSpec == SolveInit /\ [][SolveNext]_vars

\* ------------------------------------------------------------------------
\* The scoring calls: a caller collects candidates of one room from the
\* generators, scores each with calculate_layout_score, ranks them with
\* compare_layouts and takes the best with get_best_layout.
\* ------------------------------------------------------------------------
\* the most candidates given to one ranking
MaxResults == 3

ScoreEnvs ==
  UNION { { Env(room, ws_type, seats_required, door_side, None, <<>>) :
              ws_type \in {"ws_1200x700", "ws_1000x600"},
              seats_required \in 1..MaxSeats,
              door_side \in {"L", ""} } : room \in Rooms }

\* the generator calls the candidates come from, as the parameters of Call
ScoreCalls ==
  { <<"double_wall", "L", "", 0, "">>,
    <<"face_to_face_center", "L", "", 0, "">>, <<"mixed", "L", "", 2, "L">> }

\* the "scoring" section of a config.yaml
ScoringConfig ==
  [weights |-> [seat_count |-> 1500, face_to_face_bonus |-> 0],
   presets |-> [max_seats |-> [seat_count |-> 2000, passage_width |-> 300]]]

\* the arguments of the scoring calls besides the candidates and the room
ScoringArgs ==
  { [weights |-> None, config |-> None, preset |-> None,
     door_positions |-> None, window_sides |-> None],
    [weights |-> << [seat_count |-> 2000, natural_light |-> 0] >>,
     config |-> None, preset |-> None,
     door_positions |-> << << [x |-> 0, y |-> 1000] >> >>,
     window_sides |-> << {"L", "B"} >>],
    [weights |-> None, config |-> << ScoringConfig >>,
     preset |-> << "max_seats" >>,
     door_positions |-> None, window_sides |-> << {} >>],
    [weights |-> None, config |-> << ScoringConfig >>, preset |-> None,
     door_positions |-> << <<>> >>, window_sides |-> None] }

ScoreInit ==
  /\ env \in ScoreEnvs
  /\ blocks = env.blocks
  /\ scoring \in ScoringArgs
  /\ results = <<>> /\ scored = <<>>
  /\ ranking = <<>> /\ best_layout = <<>> /\ calls = <<>>
  /\ sweep = <<>>
  /\ pc = "candidates"
  /\ args = <<>> /\ loc = <<>> /\ result = <<>>
  /\ q = <<>> /\ p = <<>> /\ eq_walls = <<>>
  /\ base_result = <<>> /\ out = <<>>
  /\ g = <<>> /\ v = <<>> /\ generated = <<>>

\* the caller adds the candidate of one generator call to its list
ScoreResult ==
  /\ pc = "candidates"
  /\ Len(results) < MaxResults
  /\ \E c \in ScoreCalls :
       results' =
         Append(results,
                RunGenerator(Args(c[1], env.room_w, env.room_d, env.ws_type,
                                  env.seats_required, blocks, 0, c[2], c[3],
                                  env.door_tip, 900, env.door_side,
                                  env.door_rect, c[4], c[5])))
  /\ UNCHANGED << env, blocks, pc, args, loc, result, q, p, eq_walls,
                  base_result, out, g, v, generated, scoring, scored,
                  ranking, best_layout, calls, sweep >>

\* the entry of scored for a candidate: the eight _calc_ scores and the
\* pair calculate_layout_score returned
ScoredEntry(sub, returned) ==
  [sub |-> sub, total |-> returned[1], breakdown |-> returned[2]]

\* calculate_layout_score on the next candidate of the list
ScoreCall ==
  /\ pc \in {"candidates", "scoring"}
  /\ Len(scored) < Len(results)
  /\ scored' =
       Append(scored,
              ScoredEntry(
                SubScores(results[Len(scored) + 1], env.room_w, env.room_d,
                          scoring.door_positions, scoring.window_sides),
                calculate_layout_score(
                  results[Len(scored) + 1], env.room_w, env.room_d,
                  scoring.weights, scoring.config, scoring.preset,
                  scoring.door_positions, scoring.window_sides)))
  /\ pc' = "scoring"
  /\ UNCHANGED << env, blocks, args, loc, result, q, p, eq_walls,
                  base_result, out, g, v, generated, results, scoring,
                  ranking, best_layout, calls, sweep >>

\* compare_layouts on the list
ScoreCompare ==
  /\ pc = "scoring"
  /\ Len(scored) = Len(results)
  /\ ranking' = compare_layouts(results, env.room_w, env.room_d,
                                scoring.config, scoring.preset,
                                scoring.door_positions, scoring.window_sides)
  /\ pc' = "ranked"
  /\ UNCHANGED << env, blocks, args, loc, result, q, p, eq_walls,
                  base_result, out, g, v, generated, results, scoring,
                  scored, best_layout, calls, sweep >>

\* get_best_layout on the list
ScoreBest ==
  /\ pc = "ranked"
  /\ best_layout' = get_best_layout(results, env.room_w, env.room_d,
                                    scoring.config, scoring.preset,
                                    scoring.door_positions,
                                    scoring.window_sides)
  /\ pc' = "best"
  /\ UNCHANGED << env, blocks, args, loc, result, q, p, eq_walls,
                  base_result, out, g, v, generated, results, scoring,
                  scored, ranking, calls, sweep >>

ScoreNext == ScoreResult \/ ScoreCall \/ ScoreCompare \/ ScoreBest

ScoreSpec == ScoreInit /\ [][ScoreNext]_vars

\* ------------------------------------------------------------------------
\* _calc_area_per_person_score on candidates of given seats_placed, for
\* rooms whose area per person lies on, between and beyond the thresholds.
\* ------------------------------------------------------------------------
MaxSeatsPlaced == 8

AreaRoomSides == {2000, 4000, 5000, 5010, 6000, 8000}

AreaInit ==
  /\ env \in [room_w : AreaRoomSides, room_d : AreaRoomSides,
               seats_placed : 0..MaxSeatsPlaced]
  /\ pc = "area"
  /\ blocks = <<>>
  /\ args = <<>> /\ loc = <<>> /\ result = <<>>
  /\ q = <<>> /\ p = <<>> /\ eq_walls = <<>>
  /\ base_result = <<>> /\ out = <<>>
  /\ g = <<>> /\ v = <<>> /\ generated = <<>>
  /\ results = <<>> /\ scoring = <<>> /\ scored = <<>>
  /\ ranking = <<>> /\ best_layout = <<>> /\ calls = <<>>
  /\ sweep = <<>>

\* the call on a candidate with env.seats_placed seats
AreaScore ==
  /\ pc = "area"
  /\ results' = << Candidate(TRUE, env.seats_placed, env.seats_placed, <<>>,
                             "ws_1200x600", "double_wall") >>
  /\ scored' =
       << [exact |-> _calc_area_per_person_score_exact(
                       results'[1], env.room_w, env.room_d),
           score |-> _calc_area_per_person_score(
                       results'[1], env.room_w, env.room_d)] >>
  /\ pc' = "area_scored"
  /\ UNCHANGED << env, blocks, args, loc, result, q, p, eq_walls,
                  base_result, out, g, v, generated, scoring, ranking,
                  best_layout, calls, sweep >>

AreaSpec == AreaInit /\ [][AreaScore]_vars

\* ------------------------------------------------------------------------
\* Repeated generator calls: one generator is called for one room, catalog,
\* desk type, blocks and door, first with the seats_required of the run and
\* then again with a larger seats_required.
\* ------------------------------------------------------------------------
MonoInit ==
  /\ env \in Envs
  /\ blocks = env.blocks
  /\ pc = "first"
  /\ calls = <<>>
  /\ args = <<>> /\ loc = <<>> /\ result = <<>>
  /\ q = <<>> /\ p = <<>> /\ eq_walls = <<>>
  /\ base_result = <<>> /\ out = <<>>
  /\ g = <<>> /\ v = <<>> /\ generated = <<>>
  /\ results = <<>> /\ scoring = <<>> /\ scored = <<>>
  /\ ranking = <<>> /\ best_layout = <<>>
  /\ sweep = <<>>

\* the generator calls repeated, as the parameters of Call
MonoCalls ==
  { <<"double_wall", "L", "", 0, "">>,
    <<"double_wall_top_bottom", "L", "", 0, "">>,
    <<"single_wall", "L", "R", 0, "">>,
    <<"single_wall_tb", "L", "B", 0, "">>,
    <<"face_to_face_center", "L", "", 0, "">>,
    <<"mixed", "L", "", 2, "L">>, <<"mixed", "L", "", 2, "T">> }

\* the entry of calls for a call
CallEntry(a) ==
  [seats_required |-> a.seats_required, result |-> RunGenerator(a)]

\* the first call, with the seats_required of the run
MonoFirst ==
  /\ pc = "first"
  /\ \E c \in MonoCalls :
       args' = Args(c[1], env.room_w, env.room_d, env.ws_type,
                    env.seats_required, blocks, 0, c[2], c[3], env.door_tip,
                    900, env.door_side, env.door_rect, c[4], c[5])
  /\ calls' = << CallEntry(args') >>
  /\ pc' = "again"
  /\ UNCHANGED << env, blocks, loc, result, q, p, eq_walls, base_result,
                  out, g, v, generated, results, scoring, scored, ranking,
                  best_layout, sweep >>

\* the same call with a larger seats_required
MonoAgain ==
  /\ pc = "again"
  /\ \E more \in (args.seats_required + 1)..(MaxSeats + 1) :
       args' = [args EXCEPT !.seats_required = more]
  /\ calls' = Append(calls, CallEntry(args'))
  /\ pc' = "compared"
  /\ UNCHANGED << env, blocks, loc, result, q, p, eq_walls, base_result,
                  out, g, v, generated, results, scoring, scored, ranking,
                  best_layout, sweep >>

MonoNext == MonoFirst \/ MonoAgain

MonoSpec == MonoInit /\ [][MonoNext]_vars

\* ------------------------------------------------------------------------
\* The sweep loops, one iteration at a time: a generator call with its gap,
\* then a place_equipment_wall_only call on one wall with the while loop
\* over pos taken one slot at a time.
\* ------------------------------------------------------------------------
Gaps == {0, 50}

SweepEquipmentLists == { <<"mfp">>, <<"storage_M", "mfp">> }

SweepEnvs ==
  { Env(room, ws_type, seats_required, door_side, None, <<>>) :
      room \in { <<2500, 4010>>, <<4510, 3010>>, <<4510, 2810>> },
      ws_type \in {"ws_1200x700"},
      seats_required \in (MaxSeats - 1)..MaxSeats,
      door_side \in {"L", ""} }

SweepInit ==
  /\ env \in SweepEnvs
  /\ blocks = env.blocks
  /\ pc = "idle"
  /\ args = <<>> /\ loc = <<>> /\ result = <<>>
  /\ q = <<>> /\ p = <<>> /\ eq_walls = <<>>
  /\ base_result = <<>> /\ out = <<>>
  /\ g = <<>> /\ v = <<>> /\ generated = <<>>
  /\ results = <<>> /\ scoring = <<>> /\ scored = <<>>
  /\ ranking = <<>> /\ best_layout = <<>> /\ calls = <<>>
  /\ sweep = <<>>

\* a generator call with a gap between the units
SweepCall ==
  /\ pc = "idle"
  /\ \E c \in MonoCalls, gap \in Gaps :
       args' = Args(c[1], env.room_w, env.room_d, env.ws_type,
                    env.seats_required, blocks, gap, c[2], c[3],
                    env.door_tip, 900, env.door_side, env.door_rect, c[4],
                    c[5])
  /\ loc' = GenInit(args')
  /\ pc' = "sweep"
  /\ UNCHANGED << env, blocks, result, q, p, eq_walls, base_result, out, g,
                  v, generated, score_vars >>

\* pos, step and max_pos at the start of the while loop for key eq
PEWO_range(w, e, eq) ==
  LET w0 == FURNITURE[eq].w
      d0 == FURNITURE[eq].d
      along == Max(w0, d0)
      lr == w.wall \in {"L", "R"}
      max_pos == IF lr THEN w.room_d - along ELSE w.room_w - along
  IN [pos |-> IF w.start_from = "end" THEN max_pos
              ELSE IF lr THEN e.y ELSE e.start_y,
      step |-> IF w.start_from = "end" THEN -50 ELSE 50,
      max_pos |-> max_pos]

\* the call at the start of the while loop for the key of index k of
\* equipment; after the last key there is no loop to enter
PEWO_at_key(w, e, k, rejected) ==
  LET r == IF k <= Len(w.equipment) THEN PEWO_range(w, e, w.equipment[k])
           ELSE [pos |-> 0, step |-> 0, max_pos |-> 0]
  IN [w |-> w, e |-> e, k |-> k, pos |-> r.pos, step |-> r.step,
      max_pos |-> r.max_pos, rejected |-> rejected]

\* while 0 <= pos <= max_pos
PEWO_in_range(s) == 0 <= s.pos /\ s.pos <= s.max_pos

\* pos += step, after a rejected slot
PEWO_next_pos_stuck(s) == s.pos

PEWO_next_pos(s) == s.pos + s.step

\* a place_equipment_wall_only call for one wall, with the arguments
\* place_equipment_along_wall gives it
PewoCall ==
  /\ pc = "returned"
  /\ \E equipment_list \in SweepEquipmentLists,
        equipment_clearance_mm \in EquipmentClearances,
        wall \in {"L", "R", "T", "B"} :
       LET q0 == [base_result |-> result, room_w |-> env.room_w,
                  room_d |-> env.room_d, equipment_list |-> equipment_list,
                  blocks |-> blocks, equipment_x_override |-> None,
                  desk_clear_radius_mm |-> 1225,
                  desk_side_clearance_mm |-> 200,
                  equipment_clearance_mm |-> equipment_clearance_mm,
                  door_side |-> env.door_side,
                  door_offset |-> env.door_offset]
           w == PEAW_wall_args(q0, PEAW_Init(q0), wall)
       IN sweep' = PEWO_at_key(w, [items |-> <<>>,
                                   placed |-> list_copy(w.blocks).val,
                                   y |-> w.start_y, start_y |-> w.start_y,
                                   idx |-> 1], 1, FALSE)
  /\ pc' = "pewo"
  /\ UNCHANGED << env, blocks, args, loc, result, q, p, eq_walls,
                  base_result, out, g, v, generated, results, scoring,
                  scored, ranking, best_layout, calls >>

\* an iteration of the while loop that rejects its slot
PewoReject ==
  /\ pc = "pewo"
  /\ sweep.k <= Len(sweep.w.equipment)
  /\ PEWO_in_range(sweep)
  /\ ~PEWO_accepts(sweep.w, sweep.e, sweep.w.equipment[sweep.k], sweep.pos)
  /\ sweep' = [sweep EXCEPT !.pos = PEWO_next_pos(sweep), !.rejected = TRUE]
  /\ UNCHANGED << env, blocks, pc, args, loc, result, q, p, eq_walls,
                  base_result, out, g, v, generated, results, scoring,
                  scored, ranking, best_layout, calls >>

\* the iteration that places the item and breaks
PewoPlace ==
  /\ pc = "pewo"
  /\ sweep.k <= Len(sweep.w.equipment)
  /\ PEWO_in_range(sweep)
  /\ PEWO_accepts(sweep.w, sweep.e, sweep.w.equipment[sweep.k],
                  sweep.pos) = TRUE
  /\ sweep' = PEWO_at_key(sweep.w,
                          PEWO_after(sweep.w, sweep.e,
                                     sweep.w.equipment[sweep.k],
                                     <<sweep.pos>>),
                          sweep.k + 1, sweep.rejected)
  /\ UNCHANGED << env, blocks, pc, args, loc, result, q, p, eq_walls,
                  base_result, out, g, v, generated, results, scoring,
                  scored, ranking, best_layout, calls >>

\* pos has left 0..max_pos: the key is not placed on this wall
PewoSkip ==
  /\ pc = "pewo"
  /\ sweep.k <= Len(sweep.w.equipment)
  /\ ~PEWO_in_range(sweep)
  /\ sweep' = PEWO_at_key(sweep.w,
                          PEWO_after(sweep.w, sweep.e,
                                     sweep.w.equipment[sweep.k], None),
                          sweep.k + 1, sweep.rejected)
  /\ UNCHANGED << env, blocks, pc, args, loc, result, q, p, eq_walls,
                  base_result, out, g, v, generated, results, scoring,
                  scored, ranking, best_layout, calls >>

\* the loop over the keys has ended
PewoReturn ==
  /\ pc = "pewo"
  /\ sweep.k > Len(sweep.w.equipment)
  /\ pc' = "pewo_returned"
  /\ UNCHANGED << env, blocks, args, loc, result, q, p, eq_walls,
                  base_result, out, g, v, generated, score_vars >>

SweepNext ==
  \/ SweepCall
  \/ Step
  \/ Return
  \/ PewoCall
  \/ PewoReject
  \/ PewoPlace
  \/ PewoSkip
  \/ PewoReturn

\* the step of Return, by what it does to pc
SweepReturns == pc = "sweep" /\ ~GenCond(args, loc) /\ pc' = "returned"

\* a call in progress takes its next step
SweepSpec ==
  /\ SweepInit
  /\ [][SweepNext]_vars
  /\ WF_vars(Step) /\ WF_pc(SweepReturns)
  /\ WF_vars(PewoReject) /\ WF_vars(PewoPlace) /\ WF_vars(PewoSkip)
  /\ WF_vars(PewoReturn)

\* ------------------------------------------------------------------------
\* The scenarios: the calls of Spec for the two rooms of the scenarios, with
\* the door block, door rectangle and door tip build_blocks gives for a
\* centred door.
\* ------------------------------------------------------------------------
Scenario1 == Env(<<5010, 4010>>, "ws_1000x600", 4, "L", None, <<>>)

Scenario2 == Env(<<4510, 3010>>, "ws_1000x600", 5, "B", None, <<>>)

ScenarioInit ==
  /\ env \in {Scenario1, Scenario2}
  /\ blocks = env.blocks
  /\ pc = "idle"
  /\ args = <<>> /\ loc = <<>> /\ result = <<>>
  /\ q = <<>> /\ p = <<>> /\ eq_walls = <<>>
  /\ base_result = <<>> /\ out = <<>>
  /\ g = <<>> /\ v = <<>> /\ generated = <<>>
  /\ results = <<>> /\ scoring = <<>> /\ scored = <<>>
  /\ ranking = <<>> /\ best_layout = <<>> /\ calls = <<>>
  /\ sweep = <<>>

ScenarioSpec == ScenarioInit /\ [][Next]_vars

\* ------------------------------------------------------------------------
\* place_equipment_along_wall with the place_equipment_wall_only calls it
\* makes recorded one after the other, with and without
\* equipment_x_override.
\* ------------------------------------------------------------------------
XOverrides == { None, <<1000>>, <<1250>>, <<3000>> }

WallEnvs ==
  { Env(room, ws_type, seats_required, door_side, None, <<>>) :
      room \in { <<2500, 4010>>, <<4510, 3010>> },
      ws_type \in {"ws_1200x600"},
      seats_required \in 1..MaxSeats,
      door_side \in DoorSides }
    \cup
  { Env(<<2500, 5010>>, "ws_1000x600", seats_required, door_side, None,
        <<>>) :
      seats_required \in 1..MaxSeats, door_side \in DoorSides }

WallInit ==
  /\ env \in WallEnvs
  /\ blocks = env.blocks
  /\ pc = "idle"
  /\ args = <<>> /\ loc = <<>> /\ result = <<>>
  /\ q = <<>> /\ p = <<>> /\ eq_walls = <<>>
  /\ base_result = <<>> /\ out = <<>>
  /\ g = <<>> /\ v = <<>> /\ generated = <<>>
  /\ results = <<>> /\ scoring = <<>> /\ scored = <<>>
  /\ ranking = <<>> /\ best_layout = <<>> /\ calls = <<>>
  /\ sweep = <<>>

\* the generator call that gives the base candidate
WallBase ==
  /\ pc = "idle"
  /\ \E c \in MonoCalls :
       args' = Args(c[1], env.room_w, env.room_d, env.ws_type,
                    env.seats_required, blocks, 0, c[2], c[3], env.door_tip,
                    900, env.door_side, env.door_rect, c[4], c[5])
  /\ result' = RunGenerator(args')
  /\ pc' = "returned"
  /\ UNCHANGED << env, blocks, loc, q, p, eq_walls, base_result, out, g, v,
                  generated, score_vars >>

\* the place_equipment_along_wall call on the base candidate
WallEqCall ==
  /\ pc = "returned"
  /\ \E equipment_list \in EquipmentLists,
        equipment_x_override \in XOverrides :
       q' = [base_result |-> result, room_w |-> env.room_w,
             room_d |-> env.room_d, equipment_list |-> equipment_list,
             blocks |-> blocks,
             equipment_x_override |-> equipment_x_override,
             desk_clear_radius_mm |-> 1225, desk_side_clearance_mm |-> 200,
             equipment_clearance_mm |-> 100,
             door_side |-> env.door_side, door_offset |-> env.door_offset]
  /\ p' = PEAW_Init(q')
  /\ eq_walls' = <<>>
  /\ base_result' = result
  /\ pc' = "eq"
  /\ UNCHANGED << env, blocks, args, loc, result, out, g, v, generated,
                  score_vars >>

\* the entry of calls for the place_equipment_wall_only call with the
\* arguments w
WallCallEntry(w) ==
  [wall |-> w.wall, equipment |-> w.equipment, args |-> w,
   result |-> place_equipment_wall_only(w)]

\* one iteration of the loop over the walls, with its call recorded
WallEqWall ==
  /\ pc = "eq"
  /\ PEAW_Cond(q, p)
  /\ calls' = Append(calls, WallCallEntry(
                 PEAW_wall_args(q, p, PEAW_walls(q)[p.wall_i])))
  /\ p' = PEAW_after(p, calls'[Len(calls')].result)
  /\ eq_walls' = eq_walls \o
       [i \in 1..(Len(p'.equipment_items) - Len(p.equipment_items)) |->
          PEAW_walls(q)[p.wall_i]]
  /\ UNCHANGED << env, blocks, pc, args, loc, result, q, base_result, out,
                  g, v, generated, results, scoring, scored, ranking,
                  best_layout, sweep >>

WallNext == WallBase \/ WallEqCall \/ WallEqWall \/ EqReturn

WallSpec == WallInit /\ [][WallNext]_vars


\* ------------------------------------------------------------------------
\* Properties of the returned candidates
\* ------------------------------------------------------------------------
\* the furniture of a list of items: its desks, chairs and equipment items
\* (a dim_v item is a dimension line of the drawing)
Furniture(items) == {i \in 1..Len(items) : items[i].type # "dim_v"}

\* no two desks, chairs or equipment items of the list intersect
ItemsDisjoint(items) ==
  \A i, j \in Furniture(items) :
    i < j => ~intersects(items[i].rect, items[j].rect)

\* no desk, chair or equipment item of the list intersects a block
ItemsClearOfBlocks(items, bl) ==
  \A i \in Furniture(items) : ~intersects_any(items[i].rect, bl)

\* every desk and chair of the list is inside the room
SeatsInsideRoom(items, room_w, room_d) ==
  \A i \in 1..Len(items) :
    items[i].type \in {"desk", "chair"}
      => inside_room(items[i].rect, room_w, room_d)

\* C1: for every candidate with ok = true that a workstation generator
\* returned, alone or after place_equipment_along_wall, no two distinct
\* rectangles among its desks, chairs, equipment items and the input
\* blocks intersect.
C1_NoTwoRectsIntersect ==
  /\ (pc = "returned" /\ result.ok)
       => /\ ItemsDisjoint(result.items)
          /\ ItemsClearOfBlocks(result.items, env.blocks)
  /\ (pc = "done" /\ out.ok)
       => /\ ItemsDisjoint(out.items)
          /\ ItemsClearOfBlocks(out.items, env.blocks)

\* C2: for every candidate with ok = true that a workstation generator
\* returned, every desk rect and every chair rect lies inside
\* [0, room_w] x [0, room_d].
C2_SeatsInsideRoom ==
  (pc = "returned" /\ result.ok)
    => SeatsInsideRoom(result.items, env.room_w, env.room_d)

\* the desk nearest to the door tip is at least the required clearance away
\* from it: 200 mm when its short side faces the tip, otherwise 900 mm; a
\* missing door tip, or no desk, counts as clear
NearestDeskClear(items, door_tip) ==
  \/ door_tip = None
  \/ RectsOfType(items, "desk") = <<>>
  \/ LET desks == RectsOfType(items, "desk")
         pt == door_tip[1]
         near == NearestRect(desks, pt)
         required == IF _side_length_facing(near, pt) = Min(near.w, near.d)
                     THEN 200 ELSE 900
     IN _rect_point_distance(near, pt) >= required * required

\* C3: every result a workstation generator returns has ok = true exactly
\* when seats_placed >= seats_required and the desk nearest to the door tip
\* is at least the required clearance away from it.
C3_OkIffSeatsAndDoorClear ==
  pc = "returned"
    => (result.ok <=> /\ result.seats_placed >= result.seats_required
                      /\ NearestDeskClear(result.items, args.door_tip))

\* the generators that sweep along walls only
WallSweeps ==
  {"double_wall", "double_wall_top_bottom", "single_wall", "single_wall_tb"}

\* C4: in the wall sweeps, whatever the value of ok, at every point of the
\* sweep and in the result, no placed desk and no placed chair intersects a
\* rectangle of the input blocks, and every one of them is inside the room.
C4_WallSweepAvoidsBlocks ==
  (pc \in {"sweep", "returned"} /\ args.gen \in WallSweeps)
    => /\ ItemsClearOfBlocks(loc.items, env.blocks)
       /\ SeatsInsideRoom(loc.items, env.room_w, env.room_d)
       /\ pc = "returned"
            => /\ ItemsClearOfBlocks(result.items, env.blocks)
               /\ SeatsInsideRoom(result.items, env.room_w, env.room_d)

\* a wall sweep in a room with a door and a pillar has returned a candidate
\* that is not ok and holds at least one seat
C4_Witness ==
  /\ pc = "returned" /\ args.gen \in WallSweeps
  /\ Len(env.blocks) >= 2
  /\ ~result.ok /\ result.seats_placed >= 1

\* the chair is a CHAIR_SIZE square beside its desk: it does not overlap the
\* desk, its edge nearest the desk is CHAIR_DESK_GAP from the desk edge on
\* side (the chair's side of the desk), and the two centres agree on the
\* other axis up to the truncation of a half
ChairBesideDesk(desk, chair, side) ==
  /\ chair.w = 700 /\ chair.d = 700
  /\ ~intersects(desk, chair)
  /\ side \in {"T", "B", "L", "R"}
  /\ side = "T" => y2(chair) + 5 = desk.y
  /\ side = "B" => chair.y = y2(desk) + 5
  /\ side = "L" => x2(chair) + 5 = desk.x
  /\ side = "R" => chair.x = x2(desk) + 5
  /\ side \in {"T", "B"}
       => (2 * chair.x + chair.w) - (2 * desk.x + desk.w) \in {-1, 0, 1}
  /\ side \in {"L", "R"}
       => (2 * chair.y + chair.d) - (2 * desk.y + desk.d) \in {-1, 0, 1}

\* every chair of the list follows its desk and is beside it
ChairsBesideDesks(items) ==
  \A i \in 1..Len(items) :
    items[i].type = "chair"
      => /\ i > 1 /\ items[i - 1].type = "desk"
         /\ items[i - 1].label[2] = items[i].label[2]
         /\ ChairBesideDesk(items[i - 1].rect, items[i].rect,
                            items[i].chair_back)

\* C5: every chair emitted by a generator is a 700 x 700 square that does
\* not overlap its desk, whose edge nearest the desk is exactly 5 mm from
\* the desk edge on the chair's side, and whose centre on the other axis is
\* the desk's centre up to integer truncation.
C5_ChairBesideItsDesk ==
  /\ pc \in {"sweep", "returned"} => ChairsBesideDesks(loc.items)
  /\ pc = "returned" => ChairsBesideDesks(result.items)

\* a generator has returned chairs on all four sides of their desks, or a
\* chair beside a rotated desk
C5_Witness ==
  /\ pc = "returned"
  /\ \E i, j \in 1..Len(result.items) :
       /\ result.items[i].type = "chair" /\ result.items[j].type = "chair"
       /\ result.items[i].chair_back \in {"T", "B"}
       /\ result.items[j].chair_back \in {"L", "R"}

\* C6: every equipment item placed by place_equipment_along_wall lies
\* inside the room and intersects no input block, no item rectangle of the
\* base candidate and no equipment item placed earlier in the same call.
C6_EquipmentPlacedFree ==
  pc \in {"eq", "done"}
    => \A i \in 1..Len(p.equipment_items) :
         LET r == p.equipment_items[i].rect
         IN /\ inside_room(r, env.room_w, env.room_d)
            /\ ~intersects_any(r, env.blocks)
            /\ \A j \in 1..Len(result.items) :
                 ~intersects(r, result.items[j].rect)
            /\ \A k \in 1..(i - 1) :
                 ~intersects(r, p.equipment_items[k].rect)

\* a call has placed equipment on two walls of a room that holds blocks
\* and seats
C6_Witness ==
  /\ pc = "done"
  /\ env.blocks # <<>> /\ result.seats_placed >= 2
  /\ \E i, k \in 1..Len(eq_walls) : eq_walls[i] # eq_walls[k]

\* the desk is flush against the wall
FlushAgainst(d, wall, room_w, room_d) ==
  \/ wall = "L" /\ d.x = 0
  \/ wall = "R" /\ x2(d) = room_w
  \/ wall = "T" /\ d.y = 0
  \/ wall = "B" /\ y2(d) = room_d

\* the distance between the two rects along the axis of the wall, 0 when
\* they overlap along it
GapAlongWall(r, d, wall) ==
  IF wall \in {"L", "R"}
  THEN Max(0, Max(r.y - y2(d), d.y - y2(r)))
  ELSE Max(0, Max(r.x - x2(d), d.x - x2(r)))

\* C7: every equipment item that place_equipment_along_wall places on a
\* wall with desks flush against it is separated, along the axis of that
\* wall, by at least desk_side_clearance_mm from each desk flush against
\* that wall.
C7_EquipmentClearOfWallDesks ==
  pc \in {"eq", "done"}
    => \A i \in 1..Len(p.equipment_items) :
         \A j \in 1..Len(result.items) :
           (/\ result.items[j].type = "desk"
            /\ FlushAgainst(result.items[j].rect, eq_walls[i], env.room_w,
                            env.room_d))
             => GapAlongWall(p.equipment_items[i].rect,
                             result.items[j].rect, eq_walls[i])
                  >= q.desk_side_clearance_mm

\* equipment was placed on a wall that has a desk flush against it
C7_Witness ==
  /\ pc = "done"
  /\ \E i \in 1..Len(p.equipment_items) :
       \E j \in 1..Len(result.items) :
         /\ result.items[j].type = "desk"
         /\ FlushAgainst(result.items[j].rect, eq_walls[i], env.room_w,
                         env.room_d)

ComparisonKey(c, priority) ==
  LET ok == IF c.ok THEN 1 ELSE 0
      area == calc_desk_area(c.ws_type)
      equip == GetEquipmentPlaced(c)
  IN IF priority = "equipment" THEN <<ok, c.seats_placed, equip, area>>
     ELSE <<ok, c.seats_placed, area, equip>>

\* the places of the generated candidates: <<i, j>> is pattern j of the
\* i-th desk type tried
Places ==
  UNION { { <<i, j>> : j \in 1..Len(generated[i]) } :
          i \in 1..Len(generated) }

\* the candidates whose key is the key of the returned one
PlacesOfReturnedKey ==
  { pl \in Places :
      ComparisonKey(generated[pl[1]][pl[2]], g.priority)
        = ComparisonKey(out[1], g.priority) }

\* C9: solve_one_plan returns, among all candidates it generated, one whose
\* comparison key is maximal; when several candidates share the maximal
\* key, it is the one of the earliest desk type and, within it, the
\* earliest generated pattern.
C9_ReturnsFirstMaximal ==
  (pc = "solved" /\ generated # <<>>)
    => /\ out # None
       /\ \A pl \in Places :
            ~TupleLess(ComparisonKey(out[1], g.priority),
                       ComparisonKey(generated[pl[1]][pl[2]], g.priority))
       /\ \E pl \in PlacesOfReturnedKey :
            /\ out[1] = generated[pl[1]][pl[2]]
            /\ \A other \in PlacesOfReturnedKey :
                 \/ pl[1] < other[1]
                 \/ pl[1] = other[1] /\ pl[2] <= other[2]

\* solve_one_plan has returned after trying two desk types at least, and
\* another candidate, not equal to the returned one, has the maximal key
C9_Witness ==
  /\ pc = "solved" /\ Len(generated) >= 2 /\ out # None
  /\ \E pl \in PlacesOfReturnedKey : generated[pl[1]][pl[2]] # out[1]

\* the patterns of the candidates generated for the i-th desk type tried
PatternsOf(i) == [j \in 1..Len(generated[i]) |-> generated[i][j].pattern]

\* C10 as stated: for each desk type, only top/bottom-wall variants are
\* generated when the door is on the left or right wall, and all four wall
\* patterns (double_wall, double_wall_top_bottom, single_wall on L,
\* single_wall on R) when the door is on the top or bottom wall.
C10_FourPatternsForTopBottomDoor ==
  \A i \in 1..Len(generated) :
    /\ g.door_side \in {"L", "R"}
         => \A j \in 1..Len(generated[i]) :
              PatternsOf(i)[j] \in {"double_wall_top_bottom",
                                    "single_wall_T", "single_wall_B"}
    /\ g.door_side \in {"T", "B"}
         => PatternsOf(i) = << "double_wall", "double_wall_top_bottom",
                               "single_wall_L", "single_wall_R" >>

\* C10 (amended): for each desk type, solve_one_plan generates one
\* candidate when a door side is given: double_wall_top_bottom when the
\* door is on the left or right wall, single_wall_tb on the wall opposite
\* the door when the door is on the top or bottom wall; it generates the
\* four wall patterns, in the order double_wall, double_wall_top_bottom,
\* single_wall on L, single_wall on R, when no door side is given.
C10_PatternsByDoorSide ==
  \A i \in 1..Len(generated) :
    /\ g.door_side \in {"L", "R"}
         => PatternsOf(i) = << "double_wall_top_bottom" >>
    /\ g.door_side = "T" => PatternsOf(i) = << "single_wall_B" >>
    /\ g.door_side = "B" => PatternsOf(i) = << "single_wall_T" >>
    /\ g.door_side = ""
         => PatternsOf(i) = << "double_wall", "double_wall_top_bottom",
                               "single_wall_L", "single_wall_R" >>

\* solve_one_plan has returned after trying two desk types at least with
\* the door on the top or bottom wall
C10_Witness ==
  /\ pc = "solved" /\ Len(generated) >= 2
  /\ g.door_side \in {"T", "B"}

\* ------------------------------------------------------------------------
\* Properties of the loop over the desk types
\* ------------------------------------------------------------------------
\* the best candidate of the i-th desk type tried
BestOfTried(i) == SOP_best_for_ws(g, generated[i])

\* the candidate has ok=true and all requested equipment placed (or no
\* equipment was requested)
FullySatisfying(c) ==
  /\ c.ok
  /\ \/ g.equipment = <<>>
     \/ GetEquipmentPlaced(c) >= Len(g.equipment)

NoCandidateOk == \A pl \in Places : ~generated[pl[1]][pl[2]].ok

\* C12: for a non-empty list of catalog desk types, solve_one_plan always
\* returns a candidate (never nothing, whatever the room); when no
\* generated candidate has ok=true, the returned candidate has ok=false
\* and its seats_placed is the largest among all generated candidates.
C12_ReturnsBestEffort ==
  pc = "solved"
    => /\ out # None
       /\ \E pl \in Places : out[1] = generated[pl[1]][pl[2]]
       /\ NoCandidateOk
            => /\ ~out[1].ok
               /\ \A pl \in Places :
                    generated[pl[1]][pl[2]].seats_placed
                      <= out[1].seats_placed

\* solve_one_plan has returned from a room where no candidate of any desk
\* type reached the required seats, and the candidates differ in the seats
\* they placed
C12_Witness ==
  /\ pc = "solved" /\ out # None /\ NoCandidateOk
  /\ Len(generated) = Len(g.ws_candidates)
  /\ \E pl \in Places :
       generated[pl[1]][pl[2]].seats_placed < out[1].seats_placed

\* ------------------------------------------------------------------------
\* Properties of the scores
\* ------------------------------------------------------------------------
\* the names of the eight scores
ScoreNames ==
  {"seat_count", "passage_width", "natural_light", "traffic_flow",
   "face_to_face_bonus", "space_efficiency", "desk_spacing",
   "area_per_person"}

\* the weights the calculate_layout_score calls of this run use
WeightsUsed ==
  IF scoring.weights = None
  THEN load_scoring_weights(scoring.config, scoring.preset)
  ELSE scoring.weights[1]

\* the weight of a score: the one given, else the default of that score
WeightOf(name) == DictGet(WeightsUsed, name, DEFAULT_WEIGHTS[name])

\* C13: calculate_layout_score on a candidate with ok=false returns total
\* 0.0 and a breakdown whose eight sub-scores and total are all 0, whatever
\* the candidate's items, seats_placed, pattern and the weights are.
C13_NotOkScoresZero ==
  \A i \in 1..Len(scored) :
    ~results[i].ok
      => /\ scored[i].total = 0
         /\ scored[i].breakdown.total = 0
         /\ \A name \in ScoreNames : scored[i].breakdown[name] = 0

\* a candidate with ok=false that has seats and items, and scores of its own
\* that are not zero, was scored
C13_Witness ==
  \E i \in 1..Len(scored) :
    /\ ~results[i].ok
    /\ results[i].seats_placed > 0 /\ results[i].items # <<>>
    /\ scored[i].sub.seat_count > 0 /\ WeightOf("seat_count") > 0

\* the total compare_layouts gave to the candidate with index i (from 0)
RankedTotal(i) ==
  ranking[CHOOSE k \in 1..Len(ranking) : ranking[k][1] = i][2]

\* the indices (from 0) of the candidates that attain the highest total
TopIndices ==
  { i \in 0..(Len(results) - 1) :
      \A j \in 0..(Len(results) - 1) : RankedTotal(j) <= RankedTotal(i) }

\* C14: compare_layouts returns one entry per input candidate ordered by
\* total score descending, and candidates with equal totals appear in their
\* input order; get_best_layout returns the first input candidate that
\* attains the highest total.
C14_RankingDescendingStable ==
  /\ pc \in {"ranked", "best"}
       => /\ Len(ranking) = Len(results)
          /\ \A i \in 0..(Len(results) - 1) :
               \E k \in 1..Len(ranking) : ranking[k][1] = i
          /\ \A k \in 1..Len(ranking) :
               scoring.weights = None
                 => /\ ranking[k][2] = scored[ranking[k][1] + 1].total
                    /\ ranking[k][3] = scored[ranking[k][1] + 1].breakdown
          /\ \A k, l \in 1..Len(ranking) :
               k < l => \/ ranking[k][2] > ranking[l][2]
                        \/ /\ ranking[k][2] = ranking[l][2]
                           /\ ranking[k][1] < ranking[l][1]
  /\ pc = "best"
       => \E i \in TopIndices :
            /\ \A j \in TopIndices : i <= j
            /\ best_layout[1] = << results[i + 1] >>
            /\ best_layout[2] = RankedTotal(i)

\* three candidates were ranked and the best was taken: two of them share
\* the highest total, which is above the third's, and the first input
\* candidate is not among the two
C14_Witness ==
  /\ pc = "best" /\ Len(results) = 3
  /\ ranking[1][2] = ranking[2][2] /\ ranking[2][2] > ranking[3][2]
  /\ ranking[1][1] = 1 /\ ranking[2][1] = 2 /\ ranking[3][1] = 0
  /\ best_layout[1] = << results[2] >>

\* the sum of the eight fields of a breakdown
FieldSum(breakdown) ==
  breakdown.seat_count + breakdown.passage_width + breakdown.natural_light
    + breakdown.traffic_flow + breakdown.face_to_face_bonus
    + breakdown.space_efficiency + breakdown.desk_spacing
    + breakdown.area_per_person

\* the sum of the eight weights in use
WeightsTotal ==
  WeightOf("seat_count") + WeightOf("passage_width")
    + WeightOf("natural_light") + WeightOf("traffic_flow")
    + WeightOf("face_to_face_bonus") + WeightOf("space_efficiency")
    + WeightOf("desk_spacing") + WeightOf("area_per_person")

\* C15: for a candidate with ok=true, the total returned by
\* calculate_layout_score equals the plain sum of the eight breakdown
\* fields, each field being its sub-score multiplied by its weight; the
\* total is not divided by the sum of the weights.
C15_TotalIsSumOfWeightedFields ==
  \A i \in 1..Len(scored) :
    results[i].ok
      => /\ scored[i].total = FieldSum(scored[i].breakdown)
         /\ scored[i].breakdown.total = scored[i].total
         /\ \A name \in ScoreNames :
              scored[i].breakdown[name]
                = (scored[i].sub[name] * WeightOf(name)) \div Unit

\* a candidate with ok=true was scored under weights whose sum is not 1.0,
\* and its total is above 1.0, which no weighted average of scores reaches
C15_Witness ==
  \E i \in 1..Len(scored) :
    /\ results[i].ok
    /\ WeightsTotal # Unit
    /\ scored[i].total > Unit
    /\ scored[i].total = FieldSum(scored[i].breakdown)

\* C16: for every candidate with seats_placed >= 0 and item rectangles of
\* non-negative size, each of the eight unweighted sub-scores lies in
\* [0,1], so with non-negative weights the total never exceeds the sum of
\* the weights.
C16_SubScoresInUnitInterval ==
  \A i \in 1..Len(scored) :
    /\ \A name \in ScoreNames :
         0 <= scored[i].sub[name] /\ scored[i].sub[name] <= Unit
    /\ (\A name \in ScoreNames : WeightOf(name) >= 0)
         => scored[i].total <= WeightsTotal

\* a candidate was scored that has more seats than the theoretical maximum
\* of its room, so that its seat score is held at 1.0, a chair outside the
\* room, and a score strictly between 0 and 1
C16_Witness ==
  \E i \in 1..Len(scored) :
    /\ results[i].ok
    /\ results[i].seats_placed
         > Max(1, (env.room_w * env.room_d) \div AREA_PER_PERSON_OPTIMAL)
    /\ scored[i].sub.seat_count = Unit
    /\ \E k \in 1..Len(results[i].items) :
         /\ results[i].items[k].type = "chair"
         /\ ~inside_room(results[i].items[k].rect, env.room_w, env.room_d)
    /\ \E name \in ScoreNames :
         0 < scored[i].sub[name] /\ scored[i].sub[name] < Unit

\* ------------------------------------------------------------------------
\* Properties of the repeated generator calls
\* ------------------------------------------------------------------------
\* C17: for any generator with the room, catalog, desk type, blocks and
\* door data fixed: if the call with seats_required = n falls short
\* (seats_placed < n, hence ok=false), then every call with a larger
\* seats_required also returns ok=false and places no more seats than the
\* call with n did.
C17_ShortfallPersists ==
  (Len(calls) = 2
     /\ calls[1].result.seats_placed < calls[1].seats_required)
    => /\ ~calls[2].result.ok
       /\ calls[2].result.seats_placed <= calls[1].result.seats_placed

\* the same for the sweeps along the walls alone
WallSweepShortfallPersists ==
  (Len(calls) = 2 /\ args.gen \notin {"face_to_face_center", "mixed"}
     /\ calls[1].result.seats_placed < calls[1].seats_required)
    => /\ ~calls[2].result.ok
       /\ calls[2].result.seats_placed <= calls[1].result.seats_placed

\* ------------------------------------------------------------------------
\* Properties of the sweep loops
\* ------------------------------------------------------------------------
\* C18: every sweep loop of the generators (double_wall,
\* double_wall_top_bottom, single_wall, single_wall_tb, face_to_face_center,
\* mixed) and of place_equipment_wall_only terminates for positive room
\* dimensions, positive furniture dimensions and non-negative gaps: a
\* generator call in its loop eventually returns, and so does a
\* place_equipment_wall_only call, rejected slots included.
C18_SweepLoopsTerminate ==
  /\ (pc = "sweep") ~> (pc = "returned")
  /\ (pc = "pewo") ~> (pc = "pewo_returned")

\* a place_equipment_wall_only call has returned after a sweep that
\* rejected slots and left the room range without placing its key
C18_Witness ==
  /\ pc = "pewo_returned"
  /\ sweep.rejected
  /\ Len(sweep.e.items) < Len(sweep.w.equipment)

\* the loop taken one slot at a time returns what place_equipment_wall_only
\* returns
StepwiseSweepAgrees ==
  pc = "pewo_returned"
    => PEWO_Return(sweep.e) = place_equipment_wall_only(sweep.w)

\* ------------------------------------------------------------------------
\* Properties of face_to_face_center
\* ------------------------------------------------------------------------
\* max(chair_space, 850)
BackClearance == Max(CHAIR_SIZE + CHAIR_DESK_GAP, 850)

\* the room cannot give the desk band the clearance on both sides
TooShallowForBand ==
  env.room_d - F2F_Setup(args).unit_d_y < 2 * BackClearance

\* C19: whenever face_to_face_center places at least one seat, every placed
\* desk is at least max(705, 850) = 850 mm away from both the top and the
\* bottom room edge; when the room is too shallow to give the desk band that
\* clearance on both sides, the result is ok=false with seats_placed=0 and
\* an empty item list.
C19_BackClearanceKept ==
  (result # <<>> /\ args.gen = "face_to_face_center")
    => /\ result.seats_placed >= 1
            => \A i \in 1..Len(result.items) :
                 result.items[i].type = "desk"
                   => /\ result.items[i].rect.y >= 850
                      /\ env.room_d - y2(result.items[i].rect) >= 850
       /\ TooShallowForBand
            => /\ ~result.ok
               /\ result.seats_placed = 0
               /\ result.items = <<>>

\* face_to_face_center has placed seats in a room that leaves the desks
\* less than a metre behind them
C19_Witness ==
  /\ result # <<>> /\ args.gen = "face_to_face_center"
  /\ result.seats_placed >= 1
  /\ \E i \in 1..Len(result.items) :
       /\ result.items[i].type = "desk"
       /\ result.items[i].rect.y < 1000

\* face_to_face_center has returned for a room too shallow for the band
ShallowRoomReturned ==
  /\ result # <<>> /\ args.gen = "face_to_face_center"
  /\ TooShallowForBand

\* ------------------------------------------------------------------------
\* Properties of the order of the walls
\* ------------------------------------------------------------------------
\* the place of a wall in the order L, R, T, B
WallRank(wall) ==
  CASE wall = "L" -> 1 [] wall = "R" -> 2 [] wall = "T" -> 3 [] wall = "B" -> 4

\* how many elements of the sequence satisfy type = t, or are t
CountType(items, t) == Cardinality({i \in 1..Len(items) : items[i].type = t})

CountKey(keys, t) == Cardinality({i \in 1..Len(keys) : keys[i] = t})

OverrideRightWall ==
  /\ pc = "done"
  /\ q.equipment_x_override # None
  /\ Len(calls) = 1 /\ calls[1].wall = "R"
  /\ calls[1].result.items # <<>>

\* ------------------------------------------------------------------------
\* Properties of the batch of equipment keys
\* ------------------------------------------------------------------------
\* the locals of the place_equipment_wall_only call with the arguments w
\* after the first k keys of its equipment
LocalsAfterKeys(w, k) ==
  PEWO_keys([w EXCEPT !.equipment = SubSeq(w.equipment, 1, k)],
            [items |-> <<>>, placed |-> w.blocks, y |-> w.start_y,
             start_y |-> w.start_y, idx |-> 1], 1)

\* the slot the sweep for the key of index k finds, or None
SlotOfKey(w, k) ==
  LET e == LocalsAfterKeys(w, k - 1)
      r == PEWO_range(w, e, w.equipment[k])
  IN PEWO_sweep(w, e, w.equipment[k], r.pos, r.step, r.max_pos)

\* the equipment items of the returned dict
EquipmentItemsOf(d) ==
  SelectSeq(d.items, LAMBDA it : it.type \in {"mfp", "storage_M"})

\* C21: in place_equipment_along_wall an equipment key that finds no valid
\* slot never stops the batch: every later key of the list is still
\* attempted on the same wall (it is placed when its sweep finds a slot),
\* the unplaced keys are attempted again on each following wall, each
\* requested key is placed at most once, equipment_placed is the number of
\* equipment items added, equipment_target the length of the requested
\* list, and equipment_placed <= equipment_target.
C21_UnplacedKeyNeverStopsBatch ==
  pc \in {"eq", "done"}
    => /\ \A j \in 1..Len(calls) :
            /\ \A k \in 1..Len(calls[j].equipment) :
                 Len(LocalsAfterKeys(calls[j].args, k).items)
                   = Len(LocalsAfterKeys(calls[j].args, k - 1).items)
                       + (IF SlotOfKey(calls[j].args, k) # None THEN 1
                          ELSE 0)
            /\ Len(calls[j].result.items)
                 = Len(LocalsAfterKeys(calls[j].args,
                                       Len(calls[j].equipment)).items)
            /\ \A t \in {"mfp", "storage_M"} :
                 CountKey(IF j = 1 THEN q.equipment_list
                          ELSE calls[j - 1].equipment, t)
                   - (IF j = 1 THEN 0
                      ELSE CountType(calls[j - 1].result.items, t))
                   = CountKey(calls[j].equipment, t)
       /\ \A t \in {"mfp", "storage_M"} :
            CountType(p.equipment_items, t) <= CountKey(q.equipment_list, t)
       /\ pc = "done"
            => /\ \/ p.remaining = <<>>
                  \/ q.equipment_x_override # None
                  \/ Len(calls) = 4
               /\ q.equipment_list # <<>>
                    => /\ out.equipment_target = <<Len(q.equipment_list)>>
                       /\ out.equipment_placed
                            = <<Len(EquipmentItemsOf(out))>>
                       /\ Len(EquipmentItemsOf(out))
                            = Len(p.equipment_items)
                       /\ out.equipment_placed[1]
                            <= out.equipment_target[1]

\* on one wall a key found no slot and a later key of the list was placed
C21_Witness ==
  /\ pc = "done"
  /\ \E j \in 1..Len(calls) :
       \E k \in 1..Len(calls[j].equipment) :
         /\ SlotOfKey(calls[j].args, k) = None
         /\ \E k2 \in (k + 1)..Len(calls[j].equipment) :
              SlotOfKey(calls[j].args, k2) # None
  /\ Len(calls) >= 2

\* ------------------------------------------------------------------------
\* Properties of the scenarios
\* ------------------------------------------------------------------------
\* C22: scenario 1: for a 5010x4010 mm room, desk type ws_1000x600,
\* seats_required = 4 and a door on side L (block and door tip as
\* build_blocks gives them for a centred 850x900 door),
\* place_workstations_double_wall returns ok=true with seats_placed >= 4,
\* and every desk has x = 0 or x = room_w - 600.
C22_Scenario1DoubleWall ==
  (env = Scenario1 /\ result # <<>> /\ args.gen = "double_wall")
    => /\ result.ok
       /\ result.seats_placed >= 4
       /\ \A i \in 1..Len(result.items) :
            result.items[i].type = "desk"
              => result.items[i].rect.x \in {0, env.room_w - 600}

\* double_wall has returned for scenario 1 with desks on both walls
C22_Witness ==
  /\ env = Scenario1 /\ pc = "returned" /\ args.gen = "double_wall"
  /\ \E i, j \in 1..Len(result.items) :
       /\ result.items[i].type = "desk" /\ result.items[i].rect.x = 0
       /\ result.items[j].type = "desk"
       /\ result.items[j].rect.x = env.room_w - 600

\* C23: scenario 2: for a 4510x3010 mm room, desk type ws_1000x600,
\* seats_required = 5 and a door on side B (block, door rectangle and door
\* tip as build_blocks gives them for a centred 850x900 door),
\* place_workstations_face_to_face_center places a fifth seat as a 600x1200
\* rotated desk beside one end of the row of pairs, with that seat's chair
\* fully inside the room.
C23_Scenario2FifthSeat ==
  (env = Scenario2 /\ result # <<>> /\ args.gen = "face_to_face_center")
    => \E i \in 1..(Len(result.items) - 1) :
         /\ result.items[i].type = "desk"
         /\ result.items[i].label = <<"WS", 5, "D">>
         /\ result.items[i].rect.w = 600 /\ result.items[i].rect.d = 1200
         /\ result.items[i + 1].type = "chair"
         /\ inside_room(result.items[i + 1].rect, env.room_w, env.room_d)

AreaScoreAgrees ==
  pc = "area_scored"
    => LET cut == (Unit * scored[1].exact[1]) \div scored[1].exact[2]
       IN cut - 2 <= scored[1].score /\ scored[1].score <= cut + 2

\* ------------------------------------------------------------------------
\* Properties of the single rotated desk of face_to_face_center
\* ------------------------------------------------------------------------
\* face_to_face_center has returned for an odd seats_required, past its
\* early returns
OddFaceToFaceReturned ==
  /\ pc = "returned"
  /\ args.gen = "face_to_face_center"
  /\ args.seats_required % 2 = 1
  /\ ~loc.fail

\* the indices of the 600x1200 desks among the returned items
RotatedDesks ==
  { i \in 1..Len(result.items) :
      /\ result.items[i].type = "desk"
      /\ result.items[i].rect.w = 600
      /\ result.items[i].rect.d = 1200 }

\* the pair unit the rotated desk goes beside on a side
SideUnit(side) ==
  IF side = "R" THEN loc.unit_rects[Len(loc.unit_rects)]
  ELSE loc.unit_rects[1]

\* the x of a 600 wide desk directly beside the unit of a side
BesideX(side) ==
  IF side = "R" THEN SideUnit(side).x + SideUnit(side).w
  ELSE SideUnit(side).x - 600

\* the conditions under which a side takes the rotated desk
SideAdmissible(side) ==
  LET r == Rect(BesideX(side), IntHalf(args.room_d - 1200), 600, 1200)
  IN /\ loc.unit_rects # <<>>
     /\ IF side = "R" THEN args.room_w - (r.x + r.w) >= 1000
        ELSE r.x >= 1000
     /\ can_place(r, args.room_w, args.room_d, loc.placed)
     /\ _clear_of_point(r, args.door_tip, 900)

\* the side tried first and the side tried second
FirstSide == IF args.door_side = "R" THEN "L" ELSE "R"
SecondSide == IF args.door_side = "R" THEN "R" ELSE "L"

\* C25: for an odd seats_required, face_to_face_center uses 600 mm deep
\* desks and, after the pairs, appends exactly one 600x1200 desk (chair
\* rotated 90 degrees) directly beside the leftmost or the rightmost pair
\* unit, trying the side farther from the door first; a side is admitted
\* only if at least 1000 mm remain between the rotated desk and that side's
\* wall and the desk passes can_place and a 900 mm door-tip clearance; if
\* neither side is admitted the result has ok=false.
C25_SingleRotatedDesk ==
  OddFaceToFaceReturned
    => LET items == result.items
           side == IF SideAdmissible(FirstSide) THEN FirstSide
                   ELSE SecondSide
       IN /\ \A i \in 1..Len(items) :
               (items[i].type = "desk" /\ i \notin RotatedDesks)
                 => items[i].rect.d = 600
          /\ (SideAdmissible(FirstSide) \/ SideAdmissible(SecondSide))
               => /\ Cardinality(RotatedDesks) = 1
                  /\ \A i \in RotatedDesks :
                       /\ items[i].rect.x = BesideX(side)
                       /\ i < Len(items)
                       /\ items[i + 1].type = "chair"
                       /\ items[i + 1].chair_rotate = 90
                       /\ \A j \in 1..Len(items) :
                            items[j].type = "desk" => j <= i
          /\ ~(SideAdmissible(FirstSide) \/ SideAdmissible(SecondSide))
               => RotatedDesks = {} /\ result.ok = FALSE

\* the rotated desk went to the side tried second, and the seats are all
\* placed
C25_Witness ==
  /\ OddFaceToFaceReturned
  /\ ~SideAdmissible(FirstSide)
  /\ SideAdmissible(SecondSide)
  /\ RotatedDesks # {}
  /\ result.ok

\* the rotated desk went to the side tried first while both sides would
\* take it
BothSidesAdmissible ==
  /\ OddFaceToFaceReturned
  /\ SideAdmissible(FirstSide)
  /\ SideAdmissible(SecondSide)
  /\ RotatedDesks # {}

\* no side takes the rotated desk
NoSideAdmissible ==
  /\ OddFaceToFaceReturned
  /\ loc.unit_rects # <<>>
  /\ ~SideAdmissible(FirstSide)
  /\ ~SideAdmissible(SecondSide)

\* ------------------------------------------------------------------------
\* Properties of the slot of an equipment key
\* ------------------------------------------------------------------------
\* the grid positions of a wall that come before pos for the key of index
\* k: 0, 50, ... for a sweep from the start, max_pos, max_pos - 50, ... for
\* a sweep from the end
EarlierGridPositions(w, k, pos) ==
  LET max_pos == PEWO_range(w, LocalsAfterKeys(w, k - 1),
                            w.equipment[k]).max_pos
  IN IF max_pos < 0 THEN {}
     ELSE IF w.start_from = "end"
     THEN { max_pos - 50 * i : i \in 0..(max_pos \div 50) }
            \cap { x \in 0..max_pos : x > pos }
     ELSE { 50 * i : i \in 0..(max_pos \div 50) }
            \cap { x \in 0..max_pos : x < pos }

\* the earlier grid positions that satisfy all acceptance conditions for
\* the key of index k
EarlierAccepted(w, k) ==
  { x \in EarlierGridPositions(w, k, SlotOfKey(w, k)[1]) :
      PEWO_accepts(w, LocalsAfterKeys(w, k - 1), w.equipment[k], x) }

HasCatalogSize(it) ==
  {it.rect.w, it.rect.d} = {FURNITURE[it.type].w, FURNITURE[it.type].d}

\* C27: when equipment_clearance_mm > 0, any two equipment items that one
\* place_equipment_along_wall call places on the same wall are at least
\* equipment_clearance_mm apart along that wall, and the clearance-buffer
\* rectangles used to enforce this never appear among the returned items
\* (they are not counted in equipment_placed).
C27_EquipmentClearanceKept ==
  (pc \in {"eq", "done"} /\ q.equipment_clearance_mm > 0)
    => /\ Len(eq_walls) = Len(p.equipment_items)
       /\ \A i, j \in 1..Len(p.equipment_items) :
            (i < j /\ eq_walls[i] = eq_walls[j])
              => GapAlongWall(p.equipment_items[i].rect,
                              p.equipment_items[j].rect, eq_walls[i])
                   >= q.equipment_clearance_mm
       /\ (pc = "done" /\ q.equipment_list # <<>>)
            => /\ Len(out.items)
                    = Len(q.base_result.items) + Len(p.equipment_items)
               /\ out.equipment_placed = <<Len(EquipmentItemsOf(out))>>
               /\ \A i \in 1..Len(out.items) :
                    out.items[i].type \in {"mfp", "storage_M"}
                      => HasCatalogSize(out.items[i])
               /\ Len(p.placed_rects)
                    = Len(q.blocks) + Len(q.base_result.items)
                        + 2 * Len(p.equipment_items)

\* two items were placed on one wall by a sweep from the end of the wall,
\* exactly the clearance apart
C27_Witness ==
  /\ pc = "done"
  /\ q.equipment_clearance_mm > 0
  /\ \E i, j \in 1..Len(p.equipment_items) :
       /\ i < j /\ eq_walls[i] = eq_walls[j]
       /\ PEAW_start_from(q, eq_walls[i]) = "end"
       /\ GapAlongWall(p.equipment_items[i].rect,
                       p.equipment_items[j].rect, eq_walls[i])
            = q.equipment_clearance_mm

\* ------------------------------------------------------------------------
\* Properties of place_workstations_mixed
\* ------------------------------------------------------------------------
\* the pair units of the centre: the rects appended to placed after the
\* blocks and the wall-seat units
MixedPairUnits ==
  SubSeq(loc.placed, Len(args.blocks) + loc.wall_seats_placed + 1,
         Len(loc.placed))

\* the free width between a pair unit and the column of the wall-seat units
\* of wall L or R
GapToWallColumn(u) ==
  IF args.wall_side = "L" THEN u.x - M_unit_w_x(args)
  ELSE (args.room_w - M_unit_w_x(args)) - x2(u)

\* C28: place_workstations_mixed places at most wall_seats (default 2)
\* seats against the chosen wall and never more than seats_required seats
\* in total, and, for wall_side L or R, every face-to-face pair unit it
\* places in the centre is separated by at least 100 mm from the column of
\* wall-seat units.
C28_MixedSeatsAndColumnGap ==
  (pc = "returned" /\ args.gen = "mixed")
    => /\ loc.wall_seats_placed <= args.wall_seats
       /\ result.seats_placed <= args.seats_required
       /\ (args.wall_side \in {"L", "R"} /\ loc.wall_seats_placed > 0)
            => \A i \in 1..Len(MixedPairUnits) :
                 GapToWallColumn(MixedPairUnits[i]) >= 100

\* the seat counts of C28 alone
MixedSeatCounts ==
  (pc = "returned" /\ args.gen = "mixed")
    => /\ loc.wall_seats_placed <= args.wall_seats
       /\ result.seats_placed <= args.seats_required

\* the column gap of C28 for wall_side L alone
MixedColumnGapLeft ==
  (pc = "returned" /\ args.gen = "mixed" /\ args.wall_side = "L"
     /\ loc.wall_seats_placed > 0)
    => \A i \in 1..Len(MixedPairUnits) :
         GapToWallColumn(MixedPairUnits[i]) >= 100

\* ------------------------------------------------------------------------
\* Properties of the seat counter and the labels
\* ------------------------------------------------------------------------
\* the items hold n desks and n chairs, the desk of seat k followed at once
\* by its chair, for k = 1..n in this order, and n is within 0..required
SeatsWellFormed(items, n, required) ==
  /\ 0 <= n /\ n <= required
  /\ Len(RectsOfType(items, "desk")) = n
  /\ Len(RectsOfType(items, "chair")) = n
  /\ Len(items) >= 2 * n
  /\ \A k \in 1..n :
       /\ items[2 * k - 1].type = "desk"
       /\ items[2 * k - 1].label = <<"WS", k, "D">>
       /\ items[2 * k].type = "chair"
       /\ items[2 * k].label = <<"WS", k, "C">>

\* C29: after every step of every generator's sweep, and in the returned
\* result: 0 <= seats_placed <= seats_required, the items hold exactly
\* seats_placed desks and seats_placed chairs, each desk labelled WSk_D is
\* immediately followed by its chair WSk_C, and the labels run over
\* k = 1..seats_placed without gap or repetition (so ok=true implies
\* seats_placed = seats_required).
C29_SeatsAndLabels ==
  /\ pc = "sweep"
       => SeatsWellFormed(loc.items, loc.seat_idx - 1, args.seats_required)
  /\ pc = "returned"
       => /\ SeatsWellFormed(result.items, result.seats_placed,
                             args.seats_required)
          /\ result.seats_required = args.seats_required
          /\ result.ok => result.seats_placed = result.seats_required

\* in the middle of a sweep two seats are placed and more are required
C29_Witness ==
  /\ pc = "sweep"
  /\ GenCond(args, loc)
  /\ loc.seat_idx = 3
  /\ args.seats_required > 2
  /\ Len(loc.items) = 4

\* a face_to_face_center result with its two dimension lines after the
\* seats
FaceToFaceSeatsReturned ==
  /\ pc = "returned"
  /\ args.gen = "face_to_face_center"
  /\ result.ok
  /\ Len(result.items) = 2 * result.seats_placed + 2

\* ------------------------------------------------------------------------
\* Properties of the pair units of face_to_face_center
\* ------------------------------------------------------------------------
\* rect r lies inside rect u
RectInside(r, u) ==
  /\ u.x <= r.x /\ x2(r) <= x2(u)
  /\ u.y <= r.y /\ y2(r) <= y2(u)

\* the desks of the pairs among the items of the sweep (the rotated desk
\* is 600 wide)
PairDesks ==
  { i \in 1..Len(loc.items) :
      loc.items[i].type = "desk" /\ loc.items[i].rect.w # 600 }

\* C30: in face_to_face_center, the two desks of every placed pair lie
\* inside the unit rectangle that was collision-checked for that pair
\* (can_place against blocks and earlier units, plus the door-tip check),
\* for every door side and every room depth, so that no pair desk
\* intersects a blocking region.
C30_PairDesksInsideUnit ==
  (pc \in {"sweep", "returned"} /\ args.gen = "face_to_face_center")
    => \A i \in PairDesks :
         /\ \E u \in 1..Len(loc.unit_rects) :
              /\ loc.unit_rects[u].x = loc.items[i].rect.x
              /\ RectInside(loc.items[i].rect, loc.unit_rects[u])
         /\ ~intersects_any(loc.items[i].rect, args.blocks)

\* the desks of the pairs lie inside their units when the unit is centred
\* on the centre line of the room
PairDesksInsideCentredUnit ==
  (pc \in {"sweep", "returned"} /\ args.gen = "face_to_face_center"
     /\ ~loc.fail
     /\ 2 * loc.c.y0 + loc.c.unit_d_y = 2 * loc.c.center_line)
    => \A i \in PairDesks :
         \E u \in 1..Len(loc.unit_rects) :
           /\ loc.unit_rects[u].x = loc.items[i].rect.x
           /\ RectInside(loc.items[i].rect, loc.unit_rects[u])

\* a pair desk intersects a block
PairDeskOnBlock ==
  /\ pc = "returned" /\ args.gen = "face_to_face_center"
  /\ \E i \in PairDesks : intersects_any(loc.items[i].rect, args.blocks)

====
